---- MODULE Spec2Model ----
(***************************************************************************)
(* A model of the sway-ir block / instruction layer: the arena-backed      *)
(* Context (values, blocks, one function's block list), the Instruction    *)
(* sum type with its operand queries, the InstructionInserter and the      *)
(* Block CFG operations (predecessor sets, replace_successor, split_at,    *)
(* remove_instruction, replace_instruction).                               *)
(*                                                                         *)
(* Handles are arena positions: Value v is values[v], Block b is blocks[b].*)
(* An Option is a sequence of length 0 (None) or 1 (Some).  A usize index  *)
(* is 0-based, as in the source; TLA+ sequences are 1-based, so position p *)
(* of a Vec is element p + 1 of the sequence.                              *)
(***************************************************************************)
EXTENDS Integers, Sequences, FiniteSets, TLC

\* Arena capacities explored by the model checker.
MaxBlocks == 3
MaxValues == 3
\* Blocks made by Block::new and create_block_after; split_at may use the rest of the arena.
MaxCreated == 2
\* Operands of new instructions are drawn from the first MaxOperand values of the arena,
\* branch argument lists from the first MaxParam.
MaxOperand == 2
MaxParam == 1
\* Calls that rewrite blocks in place (replace_successor, remove_instruction,
\* replace_instruction, split_at) in one run.
MaxRewrites == 1
\* Longest block-argument list built by new_arg / add_arg.
MaxArgs == 2

VARIABLES
    values,       \* context.values : arena of ValueDatum
    blocks,       \* context.blocks : arena of BlockContent
    func_blocks,  \* context.functions[f].blocks : ordered list of Block handles
    rewrites,     \* how many rewriting calls were made
    status,       \* "running", "panicked" (abort) or "diverged" (a call that never returns)
    last,         \* the last call: its name, receiver, arguments and result
    iter          \* the BlockIterator or InstructionIterator in use, if any

vars == <<values, blocks, func_blocks, rewrites, status, last, iter>>

None == <<>>
Some(x) == <<x>>

\* The context as one value, so that operations are functions from context to context.
Ctx == [values |-> values, blocks |-> blocks, func_blocks |-> func_blocks]

(***************************************************************************)
(* Instruction (instruction.rs)                                            *)
(***************************************************************************)

BranchToWithArgs(block, args) == [block |-> block, args |-> args]

AddrOf(v) == [op |-> "AddrOf", arg |-> v]
\* AsmBlock(AsmBlock, Vec<AsmArg>)
AsmBlock(asm_block, asm_args) ==
    [op |-> "AsmBlock", asm_block |-> asm_block, asm_args |-> asm_args]
BinaryOp(arg1, arg2) == [op |-> "BinaryOp", arg1 |-> arg1, arg2 |-> arg2]
BitCast(v, ty) == [op |-> "BitCast", value |-> v, ty |-> ty]
Branch(to) == [op |-> "Branch", to |-> to]
Call(function, args) == [op |-> "Call", function |-> function, args |-> args]
Cmp(lhs, rhs) == [op |-> "Cmp", lhs |-> lhs, rhs |-> rhs]
ConditionalBranch(cond_value, true_block, false_block) ==
    [op |-> "ConditionalBranch", cond_value |-> cond_value,
     true_block |-> true_block, false_block |-> false_block]
ContractCall(return_type, params, coins, asset_id, gas) ==
    [op |-> "ContractCall", return_type |-> return_type, params |-> params,
     coins |-> coins, asset_id |-> asset_id, gas |-> gas]
ExtractElement(array, ty, index_val) ==
    [op |-> "ExtractElement", array |-> array, ty |-> ty, index_val |-> index_val]
ExtractValue(aggregate, ty, indices) ==
    [op |-> "ExtractValue", aggregate |-> aggregate, ty |-> ty, indices |-> indices]
GetStorageKey == [op |-> "GetStorageKey"]
Gtf(index) == [op |-> "Gtf", index |-> index]
Log(log_val, log_id) == [op |-> "Log", log_val |-> log_val, log_id |-> log_id]
ReadRegister == [op |-> "ReadRegister"]
Revert(v) == [op |-> "Revert", value |-> v]
Smo(recipient_and_message, message_size, output_index, coins) ==
    [op |-> "Smo", recipient_and_message |-> recipient_and_message,
     message_size |-> message_size, output_index |-> output_index, coins |-> coins]
StateLoadQuadWord(load_val, key) ==
    [op |-> "StateLoadQuadWord", load_val |-> load_val, key |-> key]
StateLoadWord(key) == [op |-> "StateLoadWord", key |-> key]
StateStoreQuadWord(stored_val, key) ==
    [op |-> "StateStoreQuadWord", stored_val |-> stored_val, key |-> key]
StateStoreWord(stored_val, key) ==
    [op |-> "StateStoreWord", stored_val |-> stored_val, key |-> key]
GetPointer(ptr_ty) == [op |-> "GetPointer", ptr_ty |-> ptr_ty]
InsertElement(array, value, index_val) ==
    [op |-> "InsertElement", array |-> array, value |-> value, index_val |-> index_val]
InsertValue(aggregate, value) ==
    [op |-> "InsertValue", aggregate |-> aggregate, value |-> value]
IntToPtr(v, ty) == [op |-> "IntToPtr", value |-> v, ty |-> ty]
Load(v) == [op |-> "Load", src_val |-> v]
MemCopy(dst_val, src_val) == [op |-> "MemCopy", dst_val |-> dst_val, src_val |-> src_val]
Nop == [op |-> "Nop"]
Ret(v) == [op |-> "Ret", value |-> v]
Store(dst_val, stored_val) == [op |-> "Store", dst_val |-> dst_val, stored_val |-> stored_val]

\* A faulty may_have_side_effect: memory reads are taken for effects like memory writes.
may_have_side_effect_loads(ins) ==
    ins.op \in {"AsmBlock", "Call", "ContractCall", "Log", "Smo", "StateLoadQuadWord",
                "StateStoreQuadWord", "StateStoreWord", "MemCopy", "Store",
                "InsertElement", "InsertValue", "Load"}

\* Instruction::may_have_side_effect
may_have_side_effect(ins) ==
    CASE ins.op \in {"AsmBlock", "Call", "ContractCall", "Log", "Smo", "StateLoadQuadWord",
                     "StateStoreQuadWord", "StateStoreWord", "MemCopy", "Store",
                     "InsertElement", "InsertValue"} -> TRUE
      [] ins.op \in {"AddrOf", "BitCast", "BinaryOp", "Cmp", "ExtractElement", "ExtractValue",
                     "GetStorageKey", "Gtf", "ReadRegister", "Revert", "StateLoadWord",
                     "Load", "GetPointer", "IntToPtr", "Branch", "ConditionalBranch",
                     "Ret", "Nop"} -> FALSE

\* AsmArg { name, initializer: Option<Value> }; the name plays no part here.
AsmArg(initializer) == [initializer |-> initializer]

RECURSIVE Flatten(_)
Flatten(ss) == IF ss = <<>> THEN <<>> ELSE Head(ss) \o Flatten(Tail(ss))

\* Instruction::get_operands
get_operands(ins) ==
    CASE ins.op = "AddrOf" -> <<ins.arg>>
      [] ins.op = "AsmBlock" ->
            Flatten([i \in 1..Len(ins.asm_args) |-> ins.asm_args[i].initializer])
      [] ins.op = "BitCast" -> <<ins.value>>
      [] ins.op = "BinaryOp" -> <<ins.arg1, ins.arg2>>
      [] ins.op = "Branch" -> ins.to.args
      [] ins.op = "Call" -> ins.args
      [] ins.op = "Cmp" -> <<ins.lhs, ins.rhs>>
      [] ins.op = "ConditionalBranch" ->
            <<ins.cond_value>> \o ins.true_block.args \o ins.false_block.args
      [] ins.op = "MemCopy" -> <<ins.dst_val, ins.src_val>>
      [] ins.op = "ContractCall" -> <<ins.params, ins.coins, ins.asset_id, ins.gas>>
      [] ins.op = "ExtractElement" -> <<ins.array, ins.index_val>>
      [] ins.op = "ExtractValue" -> <<ins.aggregate>>
      [] ins.op = "GetStorageKey" -> <<>>
      [] ins.op = "Gtf" -> <<ins.index>>
      [] ins.op = "Log" -> <<ins.log_val, ins.log_id>>
      [] ins.op = "ReadRegister" -> <<>>
      [] ins.op = "Revert" -> <<ins.value>>
      [] ins.op = "Smo" ->
            <<ins.recipient_and_message, ins.message_size, ins.output_index, ins.coins>>
      [] ins.op = "StateLoadQuadWord" -> <<ins.load_val, ins.key>>
      [] ins.op = "StateLoadWord" -> <<ins.key>>
      [] ins.op = "StateStoreQuadWord" -> <<ins.stored_val, ins.key>>
      [] ins.op = "StateStoreWord" -> <<ins.stored_val, ins.key>>
      [] ins.op = "GetPointer" -> <<>>
      [] ins.op = "InsertElement" -> <<ins.array, ins.value, ins.index_val>>
      [] ins.op = "InsertValue" -> <<ins.aggregate, ins.value>>
      [] ins.op = "IntToPtr" -> <<ins.value>>
      [] ins.op = "Load" -> <<ins.src_val>>
      [] ins.op = "Nop" -> <<>>
      [] ins.op = "Ret" -> <<ins.value>>
      [] ins.op = "Store" -> <<ins.dst_val, ins.stored_val>>

\* The closure `replace` of Instruction::replace_values: follow replace_map from val
\* for at most n steps.
RECURSIVE chase(_, _, _)
chase(replace_map, val, n) ==
    IF val \notin DOMAIN replace_map \/ n = 0
    THEN val
    ELSE chase(replace_map, replace_map[val], n - 1)

\* `while let Some(new_val) = replace_map.get(val) { *val = *new_val; }`.  A chain that
\* is still inside the map after as many steps as the map has keys has met a key twice:
\* the loop never ends (replace_diverges), and replace is then without meaning.
replace(replace_map, val) == chase(replace_map, val, Cardinality(DOMAIN replace_map))

replace_diverges(replace_map, val) == replace(replace_map, val) \in DOMAIN replace_map

replace_each(replace_map, vs) == [i \in 1..Len(vs) |-> replace(replace_map, vs[i])]

\* A faulty replace_values: `if let` for `while let`, one step along the map.
replace_values_one_step(ins, m) ==
    LET step(val) == IF val \in DOMAIN m THEN m[val] ELSE val
    IN CASE ins.op = "AddrOf" -> [ins EXCEPT !.arg = step(@)]
         [] ins.op = "BinaryOp" -> [ins EXCEPT !.arg1 = step(@), !.arg2 = step(@)]
         [] ins.op = "Cmp" -> [ins EXCEPT !.lhs = step(@), !.rhs = step(@)]
         [] OTHER -> ins

\* Instruction::replace_values, variant by variant as in the source.
replace_values(ins, m) ==
    CASE ins.op = "AddrOf" -> [ins EXCEPT !.arg = replace(m, @)]
      [] ins.op = "AsmBlock" ->
            [ins EXCEPT !.asm_args = [i \in 1..Len(@) |->
                [@[i] EXCEPT !.initializer = replace_each(m, @)]]]
      [] ins.op = "BitCast" -> [ins EXCEPT !.value = replace(m, @)]
      [] ins.op = "BinaryOp" ->
            [ins EXCEPT !.arg1 = replace(m, @), !.arg2 = replace(m, @)]
      [] ins.op = "Branch" -> [ins EXCEPT !.to.args = replace_each(m, @)]
      [] ins.op = "Call" -> [ins EXCEPT !.args = replace_each(m, @)]
      [] ins.op = "Cmp" -> [ins EXCEPT !.lhs = replace(m, @), !.rhs = replace(m, @)]
      [] ins.op = "ConditionalBranch" ->
            [ins EXCEPT !.cond_value = replace(m, @),
                        !.true_block.args = replace_each(m, @),
                        !.false_block.args = replace_each(m, @)]
      [] ins.op = "ContractCall" ->
            [ins EXCEPT !.params = replace(m, @), !.coins = replace(m, @),
                        !.asset_id = replace(m, @), !.gas = replace(m, @)]
      [] ins.op = "GetPointer" -> ins
      [] ins.op = "InsertElement" ->
            [ins EXCEPT !.array = replace(m, @), !.value = replace(m, @),
                        !.index_val = replace(m, @)]
      [] ins.op = "InsertValue" ->
            [ins EXCEPT !.aggregate = replace(m, @), !.value = replace(m, @)]
      [] ins.op = "ExtractElement" ->
            [ins EXCEPT !.array = replace(m, @), !.index_val = replace(m, @)]
      [] ins.op = "ExtractValue" -> [ins EXCEPT !.aggregate = replace(m, @)]
      [] ins.op = "GetStorageKey" -> ins
      [] ins.op = "Gtf" -> [ins EXCEPT !.index = replace(m, @)]
      [] ins.op = "Log" -> [ins EXCEPT !.log_val = replace(m, @), !.log_id = replace(m, @)]
      [] ins.op = "ReadRegister" -> ins
      [] ins.op = "Revert" -> [ins EXCEPT !.value = replace(m, @)]
      [] ins.op = "Smo" ->
            [ins EXCEPT !.recipient_and_message = replace(m, @),
                        !.message_size = replace(m, @),
                        !.output_index = replace(m, @), !.coins = replace(m, @)]
      [] ins.op = "StateLoadQuadWord" ->
            [ins EXCEPT !.load_val = replace(m, @), !.key = replace(m, @)]
      [] ins.op = "StateLoadWord" -> [ins EXCEPT !.key = replace(m, @)]
      [] ins.op = "StateStoreQuadWord" ->
            [ins EXCEPT !.key = replace(m, @), !.stored_val = replace(m, @)]
      [] ins.op = "StateStoreWord" ->
            [ins EXCEPT !.key = replace(m, @), !.stored_val = replace(m, @)]
      [] ins.op = "IntToPtr" -> [ins EXCEPT !.value = replace(m, @)]
      [] ins.op = "Load" -> ins
      [] ins.op = "MemCopy" -> [ins EXCEPT !.dst_val = replace(m, @), !.src_val = replace(m, @)]
      [] ins.op = "Nop" -> ins
      [] ins.op = "Ret" -> [ins EXCEPT !.value = replace(m, @)]
      [] ins.op = "Store" -> [ins EXCEPT !.stored_val = replace(m, @)]

\* The operand slots Instruction::replace_values passes to `replace`, in the order it
\* visits them: the call returns iff `replace` returns on each of them.
replaced_slots(ins) ==
    CASE ins.op \in {"GetPointer", "GetStorageKey", "ReadRegister", "Load", "Nop"} -> <<>>
      [] ins.op = "Store" -> <<ins.stored_val>>
      [] ins.op \in {"StateStoreQuadWord", "StateStoreWord"} -> <<ins.key, ins.stored_val>>
      [] OTHER -> get_operands(ins)

replace_values_diverges(ins, m) ==
    \E i \in 1..Len(replaced_slots(ins)) : replace_diverges(m, replaced_slots(ins)[i])

\* Instruction::is_terminator
\* A faulty is_terminator: the FuelVm Revert is forgotten.
is_terminator_no_revert(ins) == ins.op \in {"Branch", "ConditionalBranch", "Ret"}

is_terminator(ins) == ins.op \in {"Branch", "ConditionalBranch", "Ret", "Revert"}

(***************************************************************************)
(* Value (value.rs is not part of the sources; modelled from the           *)
(* description of its operations) and the arenas of the Context.           *)
(***************************************************************************)

Argument(block, idx) == [kind |-> "Argument", block |-> block, idx |-> idx]
Constant == [kind |-> "Constant"]
Instruction(ins) == [kind |-> "Instruction", ins |-> ins]

\* context.values.insert(datum): the new handle is the next arena position.
next_value(c) == Len(c.values) + 1
insert_value(c, datum) == [c EXCEPT !.values = Append(@, datum)]

\* Value::new_argument / new_constant / new_instruction
new_argument(c, block, idx) == insert_value(c, Argument(block, idx))
new_constant(c) == insert_value(c, Constant)
new_instruction(c, ins) == insert_value(c, Instruction(ins))

\* Value::is_terminator
value_is_terminator(c, v) ==
    c.values[v].kind = "Instruction" /\ is_terminator(c.values[v].ins)

\* Value::replace_instruction_values
replace_instruction_values(c, v, replace_map) ==
    IF c.values[v].kind = "Instruction"
    THEN [c EXCEPT !.values[v].ins = replace_values(@, replace_map)]
    ELSE c

replace_instruction_values_diverges(c, v, replace_map) ==
    c.values[v].kind = "Instruction" /\ replace_values_diverges(c.values[v].ins, replace_map)

(***************************************************************************)
(* Types (irtype.rs is not part of the sources; the few operations that    *)
(* Instruction::get_type calls are modelled from their description).       *)
(***************************************************************************)

Type_Unit == [t |-> "Unit"]
Type_Bool == [t |-> "Bool"]
Type_Uint(nbits) == [t |-> "Uint", nbits |-> nbits]
Type_B256 == [t |-> "B256"]
Type_String(len) == [t |-> "String", len |-> len]
Type_Array(elem, count) == [t |-> "Array", elem |-> elem, count |-> count]
Type_Struct(fields) == [t |-> "Struct", fields |-> fields]
Type_Pointer(ty) == [t |-> "Pointer", ty |-> ty]

\* Type::strip_ptr_type: the pointee of a pointer, any other type as it is.
strip_ptr_type(ty) == IF ty.t = "Pointer" THEN ty.ty ELSE ty

\* Aggregate::get_elem_type: the element type of an array.
get_elem_type(ty) == IF ty.t = "Array" THEN Some(ty.elem) ELSE None

\* Aggregate::get_field_type: follow the indices through nested aggregates.
RECURSIVE get_field_type(_, _)
get_field_type(ty, indices) ==
    IF indices = <<>> THEN Some(ty)
    ELSE IF ty.t = "Struct" /\ Head(indices) < Len(ty.fields)
         THEN get_field_type(ty.fields[Head(indices) + 1], Tail(indices))
    ELSE IF ty.t = "Array" /\ Head(indices) < ty.count
         THEN get_field_type(ty.elem, Tail(indices))
    ELSE None

\* ConstantValue (constant.rs)
ConstantValue_Undef == [v |-> "Undef"]
ConstantValue_Unit == [v |-> "Unit"]
ConstantValue_Bool(b) == [v |-> "Bool", b |-> b]
ConstantValue_Uint(n) == [v |-> "Uint", n |-> n]
ConstantValue_B256(bytes) == [v |-> "B256", bytes |-> bytes]
ConstantValue_String(bytes) == [v |-> "String", bytes |-> bytes]
ConstantValue_Array(children) == [v |-> "Array", children |-> children]
ConstantValue_Struct(children) == [v |-> "Struct", children |-> children]

\* BlockArgument { block, idx, ty } and Constant { ty, value } with their types.
TypedArgument(block, idx, ty) == [kind |-> "Argument", block |-> block, idx |-> idx, ty |-> ty]
ConstantOf(ty, value) == [kind |-> "Constant", ty |-> ty, value |-> value]

\* Type::eq: types are interned, equal handles are equal structures.
Type_eq(ty, other) == ty = other

\* A faulty eq: the derived structural equality, under which an Undef equals itself.
Constant_eq_derived(self, other) ==
    self.ty = other.ty /\ self.value = other.value

\* A faulty eq: two aggregates of one type are equal whatever their children.
Constant_eq_shallow(self, other) ==
    /\ self.ty = other.ty
    /\ self.value.v # "Undef" /\ other.value.v # "Undef"
    /\ self.value.v = other.value.v
    /\ self.value.v \in {"Array", "Struct"} \/ self.value = other.value

\* Constant::eq
RECURSIVE Constant_eq(_, _)
Constant_eq(self, other) ==
    /\ Type_eq(self.ty, other.ty)
    /\ LET l == self.value
           r == other.value
       IN IF l.v = "Undef" \/ r.v = "Undef" THEN FALSE
          ELSE IF l.v = "Unit" /\ r.v = "Unit" THEN TRUE
          ELSE IF l.v = "Bool" /\ r.v = "Bool" THEN l.b = r.b
          ELSE IF l.v = "Uint" /\ r.v = "Uint" THEN l.n = r.n
          ELSE IF l.v = "B256" /\ r.v = "B256" THEN l.bytes = r.bytes
          ELSE IF l.v = "String" /\ r.v = "String" THEN l.bytes = r.bytes
          ELSE IF (l.v = "Array" /\ r.v = "Array") \/ (l.v = "Struct" /\ r.v = "Struct")
               \* l0.iter().zip(r0.iter()).all(..): zip stops with the shorter list
               THEN \A i \in 1..Len(l.children) :
                        i <= Len(r.children) => Constant_eq(l.children[i], r.children[i])
          ELSE FALSE

\* context.functions[function].return_type
return_type(function) == Type_Unit

\* Instruction::get_type, with Value::get_type for the operands it asks.
RECURSIVE get_type(_, _)
Value_get_type(c, v) ==
    IF c.values[v].kind = "Instruction" THEN get_type(c, c.values[v].ins)
    ELSE Some(c.values[v].ty)

\* A faulty get_type: whatever yields no value is typed Unit, the terminators too.
get_type_unit_terminators(c, ins) ==
    IF ins.op \in {"Branch", "ConditionalBranch", "Revert", "Ret", "Nop", "Log", "Smo",
                   "StateLoadQuadWord", "StateStoreQuadWord", "StateStoreWord",
                   "MemCopy", "Store"}
    THEN Some(Type_Unit)
    ELSE IF ins.op = "Cmp" THEN Some(Type_Bool)
    ELSE IF ins.op = "BinaryOp" THEN Value_get_type(c, ins.arg1)
    ELSE Some(Type_Uint(64))

get_type(c, ins) ==
    CASE ins.op = "AddrOf" -> Some(Type_Uint(64))
      [] ins.op = "AsmBlock" -> Some(ins.asm_block.return_type)
      [] ins.op = "BinaryOp" -> Value_get_type(c, ins.arg1)
      [] ins.op = "BitCast" -> Some(ins.ty)
      [] ins.op = "Call" -> Some(return_type(ins.function))
      [] ins.op = "Cmp" -> Some(Type_Bool)
      [] ins.op = "ContractCall" -> Some(ins.return_type)
      [] ins.op = "ExtractElement" -> get_elem_type(ins.ty)
      [] ins.op = "ExtractValue" -> get_field_type(ins.ty, ins.indices)
      [] ins.op = "GetStorageKey" -> Some(Type_B256)
      [] ins.op = "Gtf" -> Some(Type_Uint(64))
      [] ins.op = "Log" -> Some(Type_Unit)
      [] ins.op = "ReadRegister" -> Some(Type_Uint(64))
      [] ins.op = "StateLoadWord" -> Some(Type_Uint(64))
      [] ins.op = "InsertElement" -> Value_get_type(c, ins.array)
      [] ins.op = "InsertValue" -> Value_get_type(c, ins.aggregate)
      [] ins.op = "Load" ->
            IF c.values[ins.src_val].kind = "Instruction"
            THEN LET f == get_type(c, c.values[ins.src_val].ins)
                 IN IF f = None THEN None ELSE Some(strip_ptr_type(f[1]))
            ELSE Some(strip_ptr_type(c.values[ins.src_val].ty))
      [] ins.op = "GetPointer" -> Some(Type_Pointer(ins.ptr_ty))
      [] ins.op = "IntToPtr" -> Some(ins.ty)
      [] ins.op = "Branch" -> None
      [] ins.op = "ConditionalBranch" -> None
      [] ins.op = "Revert" -> None
      [] ins.op = "Ret" -> None
      [] ins.op = "Smo" -> Some(Type_Unit)
      [] ins.op = "StateLoadQuadWord" -> Some(Type_Unit)
      [] ins.op = "StateStoreQuadWord" -> Some(Type_Unit)
      [] ins.op = "StateStoreWord" -> Some(Type_Unit)
      [] ins.op = "MemCopy" -> Some(Type_Unit)
      [] ins.op = "Store" -> Some(Type_Unit)
      [] ins.op = "Nop" -> None

(***************************************************************************)
(* Block (block.rs)                                                        *)
(***************************************************************************)

TheFunction == "f"

\* BlockContent { label, function, instructions: vec![], args: vec![], preds: default }
BlockContent(label, function) ==
    [label |-> label, function |-> function,
     instructions |-> <<>>, args |-> <<>>, preds |-> {}]

next_block(c) == Len(c.blocks) + 1

\* The labels the function can compare a new one with: those of the blocks on its
\* ordered block list, which is all a function holds of its blocks.
labels_of(c, function) ==
    {c.blocks[c.func_blocks[i]].label : i \in 1..Len(c.func_blocks)}

\* base followed by the first number that makes a label no listed block has.
with_suffix(c, function, base) ==
    LET free == {n \in 0..Len(c.blocks) : (base \o ToString(n)) \notin labels_of(c, function)}
    IN base \o ToString(CHOOSE n \in free : \A m \in free : n <= m)

\* Function::get_unique_label (function.rs is not part of the sources): a base supplied
\* by the caller is kept when no block of the list has it and is given a suffix
\* otherwise; without a base the label is generated.
get_unique_label(c, function, label) ==
    IF label = None THEN with_suffix(c, function, "block")
    ELSE IF label[1] \notin labels_of(c, function) THEN label[1]
    ELSE with_suffix(c, function, label[1])

\* A Block::new that also pushes the block on the function's block list.
Block_new_listed(c, function, label) ==
    [c EXCEPT !.blocks = Append(@, BlockContent(get_unique_label(c, function, label), function)),
              !.func_blocks = Append(@, Len(c.blocks) + 1)]

\* Block::new: the label is made unique by the function, the block is inserted in the
\* arena; the function's block list is not touched here.
Block_new(c, function, label) ==
    [c EXCEPT !.blocks = Append(@, BlockContent(get_unique_label(c, function, label), function))]

num_instructions(c, b) == Len(c.blocks[b].instructions)
num_args(c, b) == Len(c.blocks[b].args)
num_predecessors(c, b) == Cardinality(c.blocks[b].preds)

\* The index Block::new_arg returns.
new_arg_idx(c, b) == Len(c.blocks[b].args)

\* A faulty new_arg: the argument records the new length instead of its position.
new_arg_wrong_idx(c, b) ==
    LET arg_val == next_value(c)
        c1 == new_argument(c, b, Len(c.blocks[b].args) + 1)
    IN [c1 EXCEPT !.blocks[b].args = Append(@, arg_val)]

\* Block::new_arg: returns the index, which is the old argument count.
new_arg(c, b) ==
    LET idx == new_arg_idx(c, b)
        arg_val == next_value(c)
        c1 == new_argument(c, b, idx)
    IN [c1 EXCEPT !.blocks[b].args = Append(@, arg_val)]

\* A faulty guard: the index of the argument is not compared with the argument count.
add_arg_ok_any_idx(c, b, arg) ==
    /\ c.values[arg].kind = "Argument"
    /\ c.values[arg].block = b

\* Block::add_arg: the match guard; any other value panics.
add_arg_ok(c, b, arg) ==
    /\ c.values[arg].kind = "Argument"
    /\ c.values[arg].block = b
    /\ c.values[arg].idx = Len(c.blocks[b].args)
add_arg(c, b, arg) == [c EXCEPT !.blocks[b].args = Append(@, arg)]

\* A faulty add_pred: inserting a block already present takes it out.
add_pred_toggle(c, b, from_block) ==
    [c EXCEPT !.blocks[b].preds =
        IF from_block \in @ THEN @ \ {from_block} ELSE @ \cup {from_block}]

\* Block::add_pred, remove_pred, replace_pred: preds is a hash set.
add_pred(c, b, from_block) == [c EXCEPT !.blocks[b].preds = @ \cup {from_block}]
remove_pred(c, b, from_block) == [c EXCEPT !.blocks[b].preds = @ \ {from_block}]
\* A faulty replace_pred: nothing is done when the old source is no predecessor.
replace_pred_if_present(c, b, old_source, new_source) ==
    IF old_source \in c.blocks[b].preds
    THEN [c EXCEPT !.blocks[b].preds = (@ \ {old_source}) \cup {new_source}]
    ELSE c

\* A faulty replace_pred: the old source is not removed.
replace_pred_keeps_old(c, b, old_source, new_source) == add_pred(c, b, new_source)

replace_pred(c, b, old_source, new_source) ==
    add_pred(remove_pred(c, b, old_source), b, new_source)

\* Block::get_terminator(_mut): the last entry of the instruction list when it
\* resolves to an Instruction, as an Option of the Value holding it.
get_terminator_val(c, b) ==
    LET is == c.blocks[b].instructions
    IN IF is = <<>> THEN None
       ELSE IF c.values[is[Len(is)]].kind = "Instruction" THEN Some(is[Len(is)])
       ELSE None

get_terminator(c, b) ==
    IF get_terminator_val(c, b) = None THEN None
    ELSE Some(c.values[get_terminator_val(c, b)[1]].ins)

\* A faulty successors: the two edges of a conditional branch in the wrong order.
successors_swapped(c, b) ==
    LET term == get_terminator(c, b)
    IN IF term = None THEN <<>>
       ELSE IF term[1].op = "ConditionalBranch"
            THEN <<term[1].false_block, term[1].true_block>>
       ELSE IF term[1].op = "Branch" THEN <<term[1].to>>
       ELSE <<>>

\* Block::successors
successors(c, b) ==
    LET term == get_terminator(c, b)
    IN IF term = None THEN <<>>
       ELSE IF term[1].op = "ConditionalBranch"
            THEN <<term[1].true_block, term[1].false_block>>
       ELSE IF term[1].op = "Branch" THEN <<term[1].to>>
       ELSE <<>>

succ_blocks(c, b) == {successors(c, b)[i].block : i \in 1..Len(successors(c, b))}

\* A faulty get_succ_params: the arguments of the first edge, whatever its destination.
get_succ_params_first_edge(c, b, succ) ==
    IF successors(c, b) = <<>> THEN <<>> ELSE successors(c, b)[1].args

\* Block::get_succ_params
get_succ_params(c, b, succ) ==
    LET ss == successors(c, b)
        hits == {i \in 1..Len(ss) : ss[i].block = succ}
    IN IF hits = {} THEN <<>>
       ELSE ss[CHOOSE i \in hits : \A j \in hits : i <= j].args

\* A faulty get_succ_params_mut: the false edge is looked at first.
get_succ_params_mut_false_first(c, b, succ) ==
    LET term == get_terminator(c, b)
    IN IF term = None THEN None
       ELSE IF term[1].op = "ConditionalBranch"
            THEN IF term[1].false_block.block = succ
                 THEN Some([slot |-> "false_block", args |-> term[1].false_block.args])
                 ELSE IF term[1].true_block.block = succ
                 THEN Some([slot |-> "true_block", args |-> term[1].true_block.args])
                 ELSE None
       ELSE IF term[1].op = "Branch" /\ term[1].to.block = succ
            THEN Some([slot |-> "to", args |-> term[1].to.args])
       ELSE None

\* Block::get_succ_params_mut: the argument list the returned reference points to,
\* with the edge of the terminator that holds it.
get_succ_params_mut(c, b, succ) ==
    LET term == get_terminator(c, b)
    IN IF term = None THEN None
       ELSE IF term[1].op = "ConditionalBranch"
            THEN IF term[1].true_block.block = succ
                 THEN Some([slot |-> "true_block", args |-> term[1].true_block.args])
                 ELSE IF term[1].false_block.block = succ
                 THEN Some([slot |-> "false_block", args |-> term[1].false_block.args])
                 ELSE None
       ELSE IF term[1].op = "Branch" /\ term[1].to.block = succ
            THEN Some([slot |-> "to", args |-> term[1].to.args])
       ELSE None

\* BlockArgument::get_val_coming_from, for the argument self = Argument{block, idx}.
\* The inner loop over the successors of one predecessor: the first edge whose
\* destination is from_block answers, with args[self.idx] (a panic when the list is
\* too short).
edge_to_from_block(c, pred, from_block) ==
    LET ss == successors(c, pred)
        hits == {i \in 1..Len(ss) : ss[i].block = from_block}
    IN IF hits = {} THEN None ELSE Some(ss[CHOOSE i \in hits : \A j \in hits : i <= j])

\* A result of the call: the Option returned, or the panic of an index out of bounds.
Returns(ret) == [panics |-> FALSE, ret |-> ret]
Panics == [panics |-> TRUE, ret |-> None]

\* The outer loop runs over the hash set of predecessors of self.block in an order the
\* code does not fix: any predecessor with an edge to from_block may be met first.
\* The set of the results the call can have.
get_val_coming_from(c, self, from_block) ==
    LET found == {pred \in c.blocks[self.block].preds :
                     edge_to_from_block(c, pred, from_block) # None}
    IN IF found = {} THEN {Returns(None)}
       ELSE {IF self.idx < Len(edge_to_from_block(c, pred, from_block)[1].args)
             THEN Returns(Some(edge_to_from_block(c, pred, from_block)[1].args[self.idx + 1]))
             ELSE Panics : pred \in found}

\* Block::is_terminated
is_terminated(c, b) ==
    LET is == c.blocks[b].instructions
    IN is # <<>> /\ value_is_terminator(c, is[Len(is)])

\* Block::is_terminated_by_ret_or_revert
is_terminated_by_ret_or_revert(c, b) ==
    LET term == get_terminator(c, b)
    IN IF term = None THEN FALSE ELSE term[1].op \in {"Ret", "Revert"}

\* A faulty rewrite: the false edge is looked at only when the true edge did not match.
replace_successor_term_else_if(term, old_succ, new_succ, new_params) ==
    IF term.op = "ConditionalBranch"
    THEN IF old_succ = term.true_block.block
         THEN [term EXCEPT !.true_block = BranchToWithArgs(new_succ, new_params)]
         ELSE IF old_succ = term.false_block.block
         THEN [term EXCEPT !.false_block = BranchToWithArgs(new_succ, new_params)]
         ELSE term
    ELSE IF term.op = "Branch" /\ term.to.block = old_succ
    THEN [term EXCEPT !.to = BranchToWithArgs(new_succ, new_params)]
    ELSE term

\* The terminator rewritten by Block::replace_successor: every destination equal to
\* old_succ becomes new_succ with new_params (both edges of a ConditionalBranch are
\* tested, one after the other).
replace_successor_term(term, old_succ, new_succ, new_params) ==
    IF term.op = "ConditionalBranch"
    THEN LET t1 == IF old_succ = term.true_block.block
                   THEN [term EXCEPT !.true_block = BranchToWithArgs(new_succ, new_params)]
                   ELSE term
         IN IF old_succ = t1.false_block.block
            THEN [t1 EXCEPT !.false_block = BranchToWithArgs(new_succ, new_params)]
            ELSE t1
    ELSE IF term.op = "Branch" /\ term.to.block = old_succ
    THEN [term EXCEPT !.to = BranchToWithArgs(new_succ, new_params)]
    ELSE term

\* The flag `modified` of Block::replace_successor.
replace_successor_modified(c, b, old_succ) ==
    LET term == get_terminator(c, b)
    IN /\ term # None
       /\ \/ /\ term[1].op = "ConditionalBranch"
             /\ \/ old_succ = term[1].true_block.block
                \/ old_succ = term[1].false_block.block
          \/ /\ term[1].op = "Branch"
             /\ term[1].to.block = old_succ

\* A faulty replace_successor: the block is added to the new successor before it is
\* removed from the old one.
replace_successor_add_first(c, b, old_succ, new_succ, new_params) ==
    LET tv == get_terminator_val(c, b)
        c1 == IF tv = None THEN c
              ELSE [c EXCEPT !.values[tv[1]].ins =
                        replace_successor_term(@, old_succ, new_succ, new_params)]
    IN IF replace_successor_modified(c, b, old_succ)
       THEN remove_pred(add_pred(c1, new_succ, b), old_succ, b)
       ELSE c1

\* A faulty replace_successor: the predecessor sets are updated whether or not an edge
\* was rewritten.
replace_successor_always_preds(c, b, old_succ, new_succ, new_params) ==
    LET tv == get_terminator_val(c, b)
        c1 == IF tv = None THEN c
              ELSE [c EXCEPT !.values[tv[1]].ins =
                        replace_successor_term(@, old_succ, new_succ, new_params)]
    IN add_pred(remove_pred(c1, old_succ, b), new_succ, b)

\* Block::replace_successor
replace_successor(c, b, old_succ, new_succ, new_params) ==
    LET tv == get_terminator_val(c, b)
        c1 == IF tv = None THEN c
              ELSE [c EXCEPT !.values[tv[1]].ins =
                        replace_successor_term(@, old_succ, new_succ, new_params)]
    IN IF replace_successor_modified(c, b, old_succ)
       THEN add_pred(remove_pred(c1, old_succ, b), new_succ, b)
       ELSE c1

\* Block::replace_values: the loop over the block's instruction list, from position
\* ins_idx on.
RECURSIVE block_replace_values_from(_, _, _, _)
block_replace_values_from(c, b, replace_map, ins_idx) ==
    IF ins_idx > Len(c.blocks[b].instructions) THEN c
    ELSE block_replace_values_from(
             replace_instruction_values(c, c.blocks[b].instructions[ins_idx], replace_map),
             b, replace_map, ins_idx + 1)

block_replace_values(c, b, replace_map) == block_replace_values_from(c, b, replace_map, 1)

block_replace_values_diverges(c, b, replace_map) ==
    \E i \in 1..Len(c.blocks[b].instructions) :
        replace_instruction_values_diverges(c, c.blocks[b].instructions[i], replace_map)

\* ins.iter().position(|iv| *iv == instr_val): 0 when absent, else the first
\* (1-based) position.
position(seq, instr_val) ==
    LET hits == {i \in 1..Len(seq) : seq[i] = instr_val}
    IN IF hits = {} THEN 0 ELSE CHOOSE i \in hits : \A j \in hits : i <= j

remove_at(seq, pos) == [i \in 1..(Len(seq) - 1) |-> IF i < pos THEN seq[i] ELSE seq[i + 1]]

\* A faulty remove_instruction: every occurrence of the value is taken out.
remove_instruction_retain(c, b, instr_val) ==
    LET keep(iv) == iv # instr_val
    IN [c EXCEPT !.blocks[b].instructions = SelectSeq(@, keep)]

\* A faulty remove_instruction: the value taken out of the list is freed as well when
\* it holds the last slot of the arena.
remove_instruction_freeing(c, b, instr_val) ==
    LET pos == position(c.blocks[b].instructions, instr_val)
    IN IF pos = 0 THEN c
       ELSE [c EXCEPT !.blocks[b].instructions = remove_at(@, pos),
                      !.values = IF instr_val = Len(@) THEN SubSeq(@, 1, Len(@) - 1) ELSE @]

\* Block::remove_instruction
remove_instruction(c, b, instr_val) ==
    LET pos == position(c.blocks[b].instructions, instr_val)
    IN IF pos = 0 THEN c
       ELSE [c EXCEPT !.blocks[b].instructions = remove_at(@, pos)]

(***************************************************************************)
(* Function (function.rs is not part of the sources; the three operations  *)
(* the block layer calls are modelled from their description).             *)
(***************************************************************************)

insert_at(seq, pos, x) ==
    [i \in 1..(Len(seq) + 1) |-> IF i < pos THEN seq[i] ELSE IF i = pos THEN x ELSE seq[i - 1]]

\* Function::create_block_before / create_block_after: a new block spliced into the
\* function's block list next to the anchor; they fail when the anchor is not in the list.
create_block_ok(c, anchor) == position(c.func_blocks, anchor) # 0

create_block_before(c, anchor, label) ==
    LET nb == next_block(c)
        c1 == Block_new(c, c.blocks[anchor].function, label)
    IN [c1 EXCEPT !.func_blocks = insert_at(@, position(@, anchor), nb)]

create_block_after(c, anchor, label) ==
    LET nb == next_block(c)
        c1 == Block_new(c, c.blocks[anchor].function, label)
    IN [c1 EXCEPT !.func_blocks = insert_at(@, position(@, anchor) + 1, nb)]

\* Function::replace_value(old_val, new_val, Some(block)): the rewrite limited to the
\* one block, done by Block::replace_values with the map {old_val -> new_val}.
function_replace_value(c, old_val, new_val, block) ==
    block_replace_values(c, block, (old_val :> new_val))

function_replace_value_diverges(c, old_val, new_val, block) ==
    block_replace_values_diverges(c, block, (old_val :> new_val))

(***************************************************************************)
(* Block::replace_instruction and Block::split_at (block.rs)               *)
(***************************************************************************)

\* The instruction list with the first entry equal to old_instr_val overwritten.
replace_instruction_list(c, b, old_instr_val, new_instr_val) ==
    [c EXCEPT !.blocks[b].instructions[position(c.blocks[b].instructions, old_instr_val)] =
                  new_instr_val]

replace_instruction_found(c, b, old_instr_val) ==
    position(c.blocks[b].instructions, old_instr_val) # 0

\* A faulty replace_instruction: the uses are rewritten even when old_instr_val is
\* not in the list.
replace_instruction_always(c, b, old_instr_val, new_instr_val) ==
    IF ~replace_instruction_found(c, b, old_instr_val)
    THEN function_replace_value(c, old_instr_val, new_instr_val, b)
    ELSE function_replace_value(
             replace_instruction_list(c, b, old_instr_val, new_instr_val),
             old_instr_val, new_instr_val, b)

\* Block::replace_instruction: its result and the context it leaves.
replace_instruction_ret(c, b, old_instr_val) ==
    IF replace_instruction_found(c, b, old_instr_val) THEN "Ok" ELSE "ValueNotFound"

replace_instruction(c, b, old_instr_val, new_instr_val) ==
    IF ~replace_instruction_found(c, b, old_instr_val) THEN c
    ELSE function_replace_value(
             replace_instruction_list(c, b, old_instr_val, new_instr_val),
             old_instr_val, new_instr_val, b)

replace_instruction_diverges(c, b, old_instr_val, new_instr_val) ==
    /\ replace_instruction_found(c, b, old_instr_val)
    /\ function_replace_value_diverges(
           replace_instruction_list(c, b, old_instr_val, new_instr_val),
           old_instr_val, new_instr_val, b)

\* split_at, split_idx == 0: the loop that moves the arguments of b to new_block,
\* from position i on.
RECURSIVE move_args_from(_, _, _, _)
move_args_from(c, args, new_block, i) ==
    IF i > Len(args) THEN c
    ELSE move_args_from(
             add_arg([c EXCEPT !.values[args[i]].block = new_block], new_block, args[i]),
             args, new_block, i + 1)

\* The loop panics (unreachable!, or the panic of add_arg) on an entry that is no
\* Argument or whose idx is not the position it is moved to.
move_args_panics(c, args) ==
    \E i \in 1..Len(args) :
        \/ c.values[args[i]].kind # "Argument"
        \/ c.values[args[i]].idx # i - 1

\* A faulty split_at(0): the predecessors follow the arguments to the new block.
split_at_zero_moves_preds(c, b) ==
    LET new_block == next_block(c)
        c1 == create_block_before(c, b, None)
        c2 == move_args_from(c1, c.blocks[b].args, new_block, 1)
    IN [c2 EXCEPT !.blocks[b].args = <<>>,
                  !.blocks[new_block].preds = c.blocks[b].preds,
                  !.blocks[b].preds = {}]

\* A faulty split_at(0): the arguments are left on the block as well.
split_at_zero_no_clear(c, b) ==
    LET new_block == next_block(c)
        c1 == create_block_before(c, b, None)
    IN move_args_from(c1, c.blocks[b].args, new_block, 1)

split_at_zero(c, b) ==
    LET new_block == next_block(c)
        c1 == create_block_before(c, b, None)
        c2 == move_args_from(c1, c.blocks[b].args, new_block, 1)
    IN [c2 EXCEPT !.blocks[b].args = <<>>]

\* A faulty destination list: the false edge of a conditional branch is forgotten.
split_at_to_blocks_true_only(c, new_block) ==
    LET term == get_terminator(c, new_block)
    IN IF term = None THEN <<>>
       ELSE IF term[1].op = "Branch" THEN <<term[1].to.block>>
       ELSE IF term[1].op = "ConditionalBranch" THEN <<term[1].true_block.block>>
       ELSE <<>>

\* The destinations whose preds are updated after the tail moved to new_block.
split_at_to_blocks(c, new_block) ==
    LET term == get_terminator(c, new_block)
    IN IF term = None THEN <<>>
       ELSE IF term[1].op = "Branch" THEN <<term[1].to.block>>
       ELSE IF term[1].op = "ConditionalBranch"
            THEN <<term[1].true_block.block, term[1].false_block.block>>
       ELSE <<>>

RECURSIVE replace_preds_from(_, _, _, _, _)
replace_preds_from(c, to_blocks, old_source, new_source, i) ==
    IF i > Len(to_blocks) THEN c
    ELSE replace_preds_from(replace_pred(c, to_blocks[i], old_source, new_source),
                            to_blocks, old_source, new_source, i + 1)

split_at_nonzero(c, b, split_idx) ==
    LET new_block == next_block(c)
        c1 == create_block_after(c, b, None)
        is == c.blocks[b].instructions
        c2 == [c1 EXCEPT !.blocks[b].instructions = SubSeq(is, 1, split_idx),
                         !.blocks[new_block].instructions = @ \o SubSeq(is, split_idx + 1, Len(is))]
    IN replace_preds_from(c2, split_at_to_blocks(c2, new_block), b, new_block, 1)

\* Block::split_at: the context it leaves and the pair of blocks it returns.
split_at(c, b, split_idx) ==
    IF split_idx = 0 THEN split_at_zero(c, b) ELSE split_at_nonzero(c, b, split_idx)

\* A faulty result: the new block is always returned first.
split_at_ret_new_first(c, b, split_idx) == <<next_block(c), b>>

split_at_ret(c, b, split_idx) ==
    IF split_idx = 0 THEN <<next_block(c), b>> ELSE <<b, next_block(c)>>

\* The unwrap() of create_block_before / create_block_after, the argument loop, and
\* Vec::split_off, which panics when split_idx is past the end of the list.
split_at_panics(c, b, split_idx) ==
    \/ ~create_block_ok(c, b)
    \/ split_idx = 0 /\ move_args_panics(c, c.blocks[b].args)
    \/ split_idx > Len(c.blocks[b].instructions)

\* The argument loop of split_at(0) up to the entry it panics on: an entry that is no
\* Argument panics (unreachable!) before anything is written, any other entry has its
\* block field overwritten before add_arg panics on it.
RECURSIVE move_args_until_panic(_, _, _, _)
move_args_until_panic(c, args, new_block, i) ==
    IF i > Len(args) THEN c
    ELSE IF c.values[args[i]].kind # "Argument" THEN c
    ELSE LET c1 == [c EXCEPT !.values[args[i]].block = new_block]
         IN IF ~add_arg_ok(c1, new_block, args[i]) THEN c1
            ELSE move_args_until_panic(add_arg(c1, new_block, args[i]), args, new_block, i + 1)

\* The context a panicking split_at leaves behind: nothing is written when the unwrap()
\* fails; otherwise the new block is made and listed, and for split_idx == 0 the
\* arguments before the failing one are moved while the list of b is not cleared.
split_at_panic_context(c, b, split_idx) ==
    IF ~create_block_ok(c, b) THEN c
    ELSE IF split_idx = 0
         THEN move_args_until_panic(create_block_before(c, b, None), c.blocks[b].args,
                                    next_block(c), 1)
         ELSE create_block_after(c, b, None)

(***************************************************************************)
(* InstructionInserter (instruction.rs)                                    *)
(***************************************************************************)

\* A faulty make_instruction!: the value is put at the head of the list.
make_instruction_at_head(c, block, ctor) ==
    LET instruction_val == next_value(c)
        c1 == new_instruction(c, ctor)
    IN [c1 EXCEPT !.blocks[block].instructions = <<instruction_val>> \o @]

\* make_instruction!: allocate the value, push it on the block's instruction list.
make_instruction(c, block, ctor) ==
    LET instruction_val == next_value(c)
        c1 == new_instruction(c, ctor)
    IN [c1 EXCEPT !.blocks[block].instructions = Append(@, instruction_val)]

\* InstructionInserter::branch
ins_branch(c, block, to_block, dest_params) ==
    LET br_val == next_value(c)
        c1 == new_instruction(c, Branch(BranchToWithArgs(to_block, dest_params)))
        c2 == add_pred(c1, to_block, block)
    IN [c2 EXCEPT !.blocks[block].instructions = Append(@, br_val)]

\* A faulty conditional_branch: the block is not registered with the false destination.
ins_conditional_branch_one_pred(c, block, cond_value, true_block, false_block, true_dest_params, false_dest_params) ==
    LET cbr_val == next_value(c)
        c1 == new_instruction(c, ConditionalBranch(cond_value,
                  BranchToWithArgs(true_block, true_dest_params),
                  BranchToWithArgs(false_block, false_dest_params)))
        c2 == add_pred(c1, true_block, block)
    IN [c2 EXCEPT !.blocks[block].instructions = Append(@, cbr_val)]

\* InstructionInserter::conditional_branch
ins_conditional_branch(c, block, cond_value, true_block, false_block, true_dest_params, false_dest_params) ==
    LET cbr_val == next_value(c)
        c1 == new_instruction(c, ConditionalBranch(cond_value,
                  BranchToWithArgs(true_block, true_dest_params),
                  BranchToWithArgs(false_block, false_dest_params)))
        c2 == add_pred(c1, true_block, block)
        c3 == add_pred(c2, false_block, block)
    IN [c3 EXCEPT !.blocks[block].instructions = Append(@, cbr_val)]

\* InstructionInserter::ret
ins_ret(c, block, value) == make_instruction(c, block, Ret(value))

\* InstructionInserter::revert
ins_revert(c, block, value) ==
    LET revert_val == next_value(c)
        c1 == new_instruction(c, Revert(value))
    IN [c1 EXCEPT !.blocks[block].instructions = Append(@, revert_val)]

(***************************************************************************)
(* The state machine: one action per call on the context.                  *)
(***************************************************************************)

Blocks == 1..Len(blocks)
Values == 1..Len(values)

\* The values offered as operands of new instructions.
Operands == {v \in Values : v <= MaxOperand}

\* Argument lists handed to branches: empty, or one operand.
ArgLists == {<<>>} \cup {<<v>> : v \in {w \in Values : w <= MaxParam}}

\* The replacement maps offered to Block::replace_values: every map from some of the
\* operand values to values of the arena.
ValueMaps == UNION {[D -> Values] : D \in SUBSET Operands}

\* The values offered as the condition of a conditional branch.
CondValues == {v \in Values : v <= MaxParam}

\* The constructors offered to the inserter methods built on make_instruction!.
Ctors == {Nop} \cup {Load(v) : v \in Operands} \cup {AddrOf(v) : v \in Operands}

\* The instructions allocated directly with Value::new_instruction.
FreeCtors == {Nop}

\* What is kept of a call: its name, receiver, arguments and result.  Of a call that
\* changed nothing (a panic, a value not found, no edge to rewrite) only the name and
\* the result are kept.
Called(op, self, args, ret) ==
    [op |-> op, self |-> self, args |-> args, ret |-> ret]

Becomes(c) ==
    /\ values' = c.values
    /\ blocks' = c.blocks
    /\ func_blocks' = c.func_blocks

Running == status = "running"
RoomForValue == Len(values) < MaxValues
RoomForBlock == Len(blocks) < MaxBlocks
RoomToCreate == Len(blocks) < MaxCreated
RoomToRewrite == rewrites < MaxRewrites

\* The context once Function::new has made the function with its entry block and
\* Value::new_constant a first constant.
Init ==
    /\ values = <<Constant>>
    /\ blocks = <<BlockContent("entry", TheFunction)>>
    /\ func_blocks = <<1>>
    /\ rewrites = 0
    /\ status = "running"
    /\ last = [op |-> "init", self |-> 0, args |-> <<>>, ret |-> None]
    /\ iter = None

NewBlock ==
    /\ Running /\ RoomToCreate
    /\ Becomes(Block_new(Ctx, TheFunction, None))
    /\ last' = Called("Block::new", 0, <<>>, next_block(Ctx))
    /\ UNCHANGED <<rewrites, status, iter>>

CreateBlockAfter ==
    /\ Running /\ RoomToCreate
    /\ \E anchor \in Blocks :
        /\ create_block_ok(Ctx, anchor)
        /\ Becomes(create_block_after(Ctx, anchor, None))
        /\ last' = Called("create_block_after", 0, <<anchor>>, next_block(Ctx))
    /\ UNCHANGED <<rewrites, status, iter>>

NewArgument ==
    /\ Running /\ RoomForValue
    /\ \E b \in Blocks, idx \in 0..(MaxArgs - 1) :
        /\ Becomes(new_argument(Ctx, b, idx))
        /\ last' = Called("new_argument", 0, <<b, idx>>, next_value(Ctx))
    /\ UNCHANGED <<rewrites, status, iter>>

\* Constant::get_unit, get_bool, get_uint, get_b256, get_string, get_array and
\* get_struct: each adds one Constant to the arena.  The values of this context carry
\* no type, so the seven are one step here.
GetConstant ==
    /\ Running /\ RoomForValue
    /\ Becomes(new_constant(Ctx))
    /\ last' = Called("get_constant", 0, <<>>, next_value(Ctx))
    /\ UNCHANGED <<rewrites, status, iter>>

\* assert!(value.ty.is_array(context)) of get_array and assert!(value.ty.is_struct(context))
\* of get_struct, on a constant of another type: nothing is stored.
GetConstantPanic ==
    /\ Running
    /\ last' = Called("get_constant", 0, <<>>, "panic")
    /\ status' = "panicked"
    /\ UNCHANGED <<values, blocks, func_blocks, rewrites, iter>>

NewInstruction ==
    /\ Running /\ RoomForValue
    /\ \E ctor \in FreeCtors :
        /\ Becomes(new_instruction(Ctx, ctor))
        /\ last' = Called("new_instruction", 0, <<ctor>>, next_value(Ctx))
    /\ UNCHANGED <<rewrites, status, iter>>

NewArg ==
    /\ Running /\ RoomForValue
    /\ \E b \in Blocks :
        /\ num_args(Ctx, b) < MaxArgs
        /\ Becomes(new_arg(Ctx, b))
        /\ last' = Called("new_arg", b, <<>>, new_arg_idx(Ctx, b))
    /\ UNCHANGED <<rewrites, status, iter>>

AddArg ==
    /\ Running
    /\ \E b \in Blocks, arg \in Values :
        /\ add_arg_ok(Ctx, b, arg)
        /\ Becomes(add_arg(Ctx, b, arg))
        /\ last' = Called("add_arg", b, <<arg>>, "Ok")
    /\ UNCHANGED <<rewrites, status, iter>>

AddArgPanic ==
    /\ Running
    /\ \E b \in Blocks, arg \in Values :
        /\ ~add_arg_ok(Ctx, b, arg)
        /\ last' = Called("add_arg", 0, <<>>, "panic")
    /\ status' = "panicked"
    /\ UNCHANGED <<values, blocks, func_blocks, rewrites, iter>>

InsMake ==
    /\ Running /\ RoomForValue
    /\ \E b \in Blocks, ctor \in Ctors :
        /\ Becomes(make_instruction(Ctx, b, ctor))
        /\ last' = Called("ins", b, <<ctor>>, next_value(Ctx))
    /\ UNCHANGED <<rewrites, status, iter>>

InsBranch ==
    /\ Running /\ RoomForValue
    /\ \E b \in Blocks, to_block \in Blocks, dest_params \in ArgLists :
        /\ Becomes(ins_branch(Ctx, b, to_block, dest_params))
        /\ last' = Called("branch", b, <<to_block, dest_params>>, next_value(Ctx))
    /\ UNCHANGED <<rewrites, status, iter>>

InsConditionalBranch ==
    /\ Running /\ RoomForValue
    /\ \E b \in Blocks, cond_value \in CondValues, true_block \in Blocks, false_block \in Blocks,
          true_dest_params \in ArgLists, false_dest_params \in ArgLists :
        /\ Becomes(ins_conditional_branch(Ctx, b, cond_value, true_block, false_block,
                                          true_dest_params, false_dest_params))
        /\ last' = Called("conditional_branch", b,
                          <<cond_value, true_block, false_block,
                            true_dest_params, false_dest_params>>, next_value(Ctx))
    /\ UNCHANGED <<rewrites, status, iter>>

InsRet ==
    /\ Running /\ RoomForValue
    /\ \E b \in Blocks, value \in Operands :
        /\ Becomes(ins_ret(Ctx, b, value))
        /\ last' = Called("ret", b, <<value>>, next_value(Ctx))
    /\ UNCHANGED <<rewrites, status, iter>>

InsRevert ==
    /\ Running /\ RoomForValue
    /\ \E b \in Blocks, value \in Operands :
        /\ Becomes(ins_revert(Ctx, b, value))
        /\ last' = Called("revert", b, <<value>>, next_value(Ctx))
    /\ UNCHANGED <<rewrites, status, iter>>

ReplaceSuccessor ==
    /\ Running /\ RoomToRewrite
    /\ \E b \in Blocks, old_succ \in Blocks, new_succ \in Blocks, new_params \in ArgLists :
        /\ Becomes(replace_successor(Ctx, b, old_succ, new_succ, new_params))
        /\ last' = IF replace_successor_modified(Ctx, b, old_succ)
                   THEN Called("replace_successor", b, <<old_succ, new_succ, new_params>>, TRUE)
                   ELSE Called("replace_successor", 0, <<>>, FALSE)
    /\ rewrites' = rewrites + 1
    /\ UNCHANGED <<status, iter>>

RemoveInstruction ==
    /\ Running /\ RoomToRewrite
    /\ \E b \in Blocks, instr_val \in Values :
        /\ Becomes(remove_instruction(Ctx, b, instr_val))
        /\ last' = IF position(blocks[b].instructions, instr_val) # 0
                   THEN Called("remove_instruction", b, <<instr_val>>, TRUE)
                   ELSE Called("remove_instruction", 0, <<>>, FALSE)
    /\ rewrites' = rewrites + 1
    /\ UNCHANGED <<status, iter>>

ReplaceInstruction ==
    /\ Running /\ RoomToRewrite
    /\ \E b \in Blocks, old_instr_val \in Values, new_instr_val \in Values :
        /\ ~replace_instruction_diverges(Ctx, b, old_instr_val, new_instr_val)
        /\ Becomes(replace_instruction(Ctx, b, old_instr_val, new_instr_val))
        /\ last' = IF replace_instruction_ret(Ctx, b, old_instr_val) = "Ok"
                   THEN Called("replace_instruction", b, <<old_instr_val, new_instr_val>>, "Ok")
                   ELSE Called("replace_instruction", 0, <<>>,
                               replace_instruction_ret(Ctx, b, old_instr_val))
    /\ rewrites' = rewrites + 1
    /\ UNCHANGED <<status, iter>>

\* The rewrite loop of replace never ends: the call does not return.
ReplaceInstructionDiverges ==
    /\ Running /\ RoomToRewrite
    /\ \E b \in Blocks, old_instr_val \in Values, new_instr_val \in Values :
        /\ replace_instruction_diverges(Ctx, b, old_instr_val, new_instr_val)
        /\ last' = Called("replace_instruction", 0, <<>>, "diverged")
    /\ status' = "diverged"
    /\ rewrites' = rewrites + 1
    /\ UNCHANGED <<values, blocks, func_blocks, iter>>

SplitAt ==
    /\ Running /\ RoomToRewrite /\ RoomForBlock
    /\ \E b \in Blocks :
        \E split_idx \in 0..(num_instructions(Ctx, b) + 1) :
            /\ ~split_at_panics(Ctx, b, split_idx)
            /\ Becomes(split_at(Ctx, b, split_idx))
            /\ last' = Called("split_at", b, <<split_idx>>, split_at_ret(Ctx, b, split_idx))
    /\ rewrites' = rewrites + 1
    /\ UNCHANGED <<status, iter>>

SplitAtPanic ==
    /\ Running /\ RoomToRewrite /\ RoomForBlock
    /\ \E b \in Blocks :
        \E split_idx \in 0..(num_instructions(Ctx, b) + 1) :
            /\ split_at_panics(Ctx, b, split_idx)
            /\ Becomes(split_at_panic_context(Ctx, b, split_idx))
            /\ last' = Called("split_at", 0, <<>>, "panic")
    /\ status' = "panicked"
    /\ rewrites' = rewrites + 1
    /\ UNCHANGED iter

\* Block::replace_values called on a block with a replacement map.  The call is
\* recorded by its block; the map shows in the operands it has rewritten.
ReplaceValues ==
    /\ Running /\ RoomToRewrite
    /\ \E b \in Blocks, replace_map \in ValueMaps :
        /\ ~block_replace_values_diverges(Ctx, b, replace_map)
        /\ Becomes(block_replace_values(Ctx, b, replace_map))
        /\ last' = Called("Block::replace_values", b, <<>>, "Ok")
    /\ rewrites' = rewrites + 1
    /\ UNCHANGED <<status, iter>>

\* The rewrite loop of replace never ends on a map with a cycle: the call does not
\* return.
ReplaceValuesDiverges ==
    /\ Running /\ RoomToRewrite
    /\ \E b \in Blocks, replace_map \in ValueMaps :
        /\ block_replace_values_diverges(Ctx, b, replace_map)
        /\ last' = Called("Block::replace_values", 0, <<>>, "diverged")
    /\ status' = "diverged"
    /\ rewrites' = rewrites + 1
    /\ UNCHANGED <<values, blocks, func_blocks, iter>>

Next ==
    \/ NewBlock
    \/ CreateBlockAfter
    \/ NewArgument
    \/ NewInstruction
    \/ GetConstant
    \/ GetConstantPanic
    \/ NewArg
    \/ AddArg
    \/ AddArgPanic
    \/ InsMake
    \/ InsBranch
    \/ InsConditionalBranch
    \/ InsRet
    \/ InsRevert
    \/ ReplaceSuccessor
    \/ RemoveInstruction
    \/ ReplaceInstruction
    \/ ReplaceInstructionDiverges
    \/ ReplaceValues
    \/ ReplaceValuesDiverges
    \/ SplitAt
    \/ SplitAtPanic

Spec == Init /\ [][Next]_vars

(***************************************************************************)
(* The instruction queries on their own: one instruction of any variant in *)
(* a small arena, and the calls get_operands, replace_values, get_type and *)
(* may_have_side_effect on it.                                             *)
(***************************************************************************)

\* Values 1..NumOperands are the operands of the instructions drawn, the next NumNewValues
\* values are what replacement maps may put in their place.
NumOperands == 2
NumNewValues == 2
\* Calls of replace_values in one run.
MaxReplaces == 2

InsOperands == 1..NumOperands
InsNewValues == (NumOperands + 1)..(NumOperands + NumNewValues)
InsUnderTest == NumOperands + NumNewValues + 1

InsTypes == {Type_Unit, Type_Bool}
InsAggregates == {Type_Array(Type_Bool, 2), Type_Struct(<<Type_Bool, Type_Uint(64)>>)}
InsArgVecs == {<<>>, <<1>>, <<2, 1>>}
InsAsmArgs == {<<>>, <<AsmArg(None)>>, <<AsmArg(Some(1))>>,
               <<AsmArg(Some(2)), AsmArg(None), AsmArg(Some(1))>>}

\* Instructions of every variant.
InsPool ==
    {AddrOf(v) : v \in InsOperands}
    \cup {AsmBlock([return_type |-> ty], args) : ty \in InsTypes, args \in InsAsmArgs}
    \cup {BinaryOp(a, b) : a \in InsOperands, b \in InsOperands}
    \cup {BitCast(v, ty) : v \in InsOperands, ty \in InsTypes}
    \cup {Branch(BranchToWithArgs(1, args)) : args \in InsArgVecs}
    \cup {Call(TheFunction, args) : args \in InsArgVecs}
    \cup {Cmp(a, b) : a \in InsOperands, b \in InsOperands}
    \cup {ConditionalBranch(v, BranchToWithArgs(1, ta), BranchToWithArgs(1, fa)) :
             v \in InsOperands, ta \in InsArgVecs, fa \in InsArgVecs}
    \cup {ContractCall(Type_Bool, a, b, c, d) :
             a \in InsOperands, b \in InsOperands, c \in InsOperands, d \in InsOperands}
    \cup {ExtractElement(a, ty, b) : a \in InsOperands, ty \in InsAggregates, b \in InsOperands}
    \cup {ExtractValue(a, ty, ix) : a \in InsOperands, ty \in InsAggregates, ix \in {<<0>>, <<1>>}}
    \cup {GetStorageKey, ReadRegister, Nop}
    \cup {Gtf(v) : v \in InsOperands}
    \cup {Log(a, b) : a \in InsOperands, b \in InsOperands}
    \cup {Revert(v) : v \in InsOperands}
    \cup {Smo(a, b, c, d) :
             a \in InsOperands, b \in InsOperands, c \in InsOperands, d \in InsOperands}
    \cup {StateLoadQuadWord(a, b) : a \in InsOperands, b \in InsOperands}
    \cup {StateLoadWord(v) : v \in InsOperands}
    \cup {StateStoreQuadWord(a, b) : a \in InsOperands, b \in InsOperands}
    \cup {StateStoreWord(a, b) : a \in InsOperands, b \in InsOperands}
    \cup {GetPointer(ty) : ty \in InsTypes}
    \cup {InsertElement(a, b, c) : a \in InsOperands, b \in InsOperands, c \in InsOperands}
    \cup {InsertValue(a, b) : a \in InsOperands, b \in InsOperands}
    \cup {IntToPtr(v, ty) : v \in InsOperands, ty \in InsTypes}
    \cup {Load(v) : v \in InsOperands}
    \cup {MemCopy(a, b) : a \in InsOperands, b \in InsOperands}
    \cup {Ret(v) : v \in InsOperands}
    \cup {Store(a, b) : a \in InsOperands, b \in InsOperands}

\* The replacement maps offered to replace_values: chains and cycles among them.
ReplaceMaps ==
    UNION {[D -> InsOperands \cup InsNewValues] : D \in SUBSET InsOperands}

\* A constant, a pointer made by an instruction, an argument and a second constant,
\* then the instruction drawn.
InsArena(ins) ==
    [v \in 1..InsUnderTest |->
        IF v = InsUnderTest THEN Instruction(ins)
        ELSE IF v = 1 THEN ConstantOf(Type_Uint(64), ConstantValue_Uint(0))
        ELSE IF v = 2 THEN Instruction(GetPointer(Type_Bool))
        ELSE IF v = NumOperands + 1 THEN TypedArgument(1, 0, Type_Bool)
        ELSE ConstantOf(Type_Bool, ConstantValue_Bool(TRUE))]

InsInit ==
    /\ \E ins \in InsPool : values = InsArena(ins)
    /\ blocks = <<[BlockContent("entry", TheFunction) EXCEPT !.args = <<NumOperands + 1>>,
                                                             !.instructions = <<2, InsUnderTest>>]>>
    /\ func_blocks = <<1>>
    /\ rewrites = 0
    /\ status = "running"
    /\ last = [op |-> "init", self |-> 0, args |-> <<>>, ret |-> None]
    /\ iter = None

InsInstructions == {v \in Values : values[v].kind = "Instruction"}

InsGetOperands ==
    /\ Running
    /\ \E v \in InsInstructions :
        last' = Called("get_operands", v, <<>>, get_operands(values[v].ins))
    /\ UNCHANGED <<values, blocks, func_blocks, rewrites, status, iter>>

InsGetType ==
    /\ Running
    /\ \E v \in InsInstructions :
        last' = Called("get_type", v, <<>>, get_type(Ctx, values[v].ins))
    /\ UNCHANGED <<values, blocks, func_blocks, rewrites, status, iter>>

InsMayHaveSideEffect ==
    /\ Running
    /\ \E v \in InsInstructions :
        last' = Called("may_have_side_effect", v, <<>>, may_have_side_effect(values[v].ins))
    /\ UNCHANGED <<values, blocks, func_blocks, rewrites, status, iter>>

InsReplaceValues ==
    /\ Running /\ rewrites < MaxReplaces
    /\ \E v \in InsInstructions, m \in ReplaceMaps :
        /\ ~replace_instruction_values_diverges(Ctx, v, m)
        /\ Becomes(replace_instruction_values(Ctx, v, m))
        /\ last' = Called("replace_values", v, <<m>>, "Ok")
    /\ rewrites' = rewrites + 1
    /\ UNCHANGED <<status, iter>>

InsReplaceValuesDiverges ==
    /\ Running /\ rewrites < MaxReplaces
    /\ \E v \in InsInstructions, m \in ReplaceMaps :
        /\ replace_instruction_values_diverges(Ctx, v, m)
        /\ last' = Called("replace_values", v, <<m>>, "diverged")
    /\ status' = "diverged"
    /\ rewrites' = rewrites + 1
    /\ UNCHANGED <<values, blocks, func_blocks, iter>>

InsNext ==
    \/ InsGetOperands
    \/ InsGetType
    \/ InsMayHaveSideEffect
    \/ InsReplaceValues
    \/ InsReplaceValuesDiverges

InsSpec == InsInit /\ [][InsNext]_vars

(***************************************************************************)
(* The constants on their own: two constants in the arena, the getters     *)
(* Constant::get_* that add one more, and Constant::eq comparing one       *)
(* constant of the arena with another.                                     *)
(***************************************************************************)

\* Longest list of children of an Array or Struct constant.
MaxChildren == 2

ConstLeaves ==
    {ConstantOf(Type_Unit, ConstantValue_Unit),
     ConstantOf(Type_Bool, ConstantValue_Bool(TRUE)),
     ConstantOf(Type_Bool, ConstantValue_Bool(FALSE)),
     ConstantOf(Type_Uint(64), ConstantValue_Uint(0)),
     ConstantOf(Type_Uint(64), ConstantValue_Uint(1)),
     ConstantOf(Type_B256, ConstantValue_B256(<<0, 0>>)),
     ConstantOf(Type_B256, ConstantValue_B256(<<0, 1>>)),
     ConstantOf(Type_String(0), ConstantValue_String(<<>>)),
     ConstantOf(Type_String(1), ConstantValue_String(<<97>>))}
    \cup {ConstantOf(ty, ConstantValue_Undef) : ty \in {Type_Unit, Type_Bool, Type_Uint(64)}}

\* The constants offered as children of an aggregate, one of them an aggregate itself.
ConstChildren ==
    {ConstantOf(Type_Bool, ConstantValue_Bool(TRUE)),
     ConstantOf(Type_Bool, ConstantValue_Bool(FALSE)),
     ConstantOf(Type_Bool, ConstantValue_Undef),
     ConstantOf(Type_Uint(64), ConstantValue_Uint(0)),
     ConstantOf(Type_Array(Type_Bool, 1),
                ConstantValue_Array(<<ConstantOf(Type_Bool, ConstantValue_Bool(TRUE))>>))}

ConstChildLists == UNION {[1..n -> ConstChildren] : n \in 0..MaxChildren}

\* Constant::new_array, Constant::new_struct: the type is made from the children.
new_array(elm_ty, elems) == ConstantOf(Type_Array(elm_ty, Len(elems)), ConstantValue_Array(elems))
new_struct(fields) ==
    ConstantOf(Type_Struct([i \in 1..Len(fields) |-> fields[i].ty]), ConstantValue_Struct(fields))

\* The constants of the arena: the leaves, and the aggregates Constant::new_array and
\* Constant::new_struct make of every list of children, the empty one included.
ConstPool ==
    ConstLeaves
    \cup {new_array(Type_Bool, ch) : ch \in ConstChildLists}
    \cup {new_struct(ch) : ch \in ConstChildLists}

ConstInit ==
    /\ \E c1 \in ConstPool, c2 \in ConstPool : values = <<c1, c2>>
    /\ blocks = <<>>
    /\ func_blocks = <<>>
    /\ rewrites = 0
    /\ status = "running"
    /\ last = [op |-> "init", self |-> 0, args |-> <<>>, ret |-> None]
    /\ iter = None

\* The constants handed to get_array and get_struct: made by new_array and new_struct,
\* and a constant that is no aggregate.
AggregateArgs ==
    {new_array(Type_Bool, <<ConstantOf(Type_Bool, ConstantValue_Bool(TRUE))>>),
     new_array(Type_Bool, <<>>),
     new_struct(<<ConstantOf(Type_Bool, ConstantValue_Bool(TRUE)),
                  ConstantOf(Type_Uint(64), ConstantValue_Uint(0))>>),
     new_struct(<<>>),
     ConstantOf(Type_Bool, ConstantValue_Bool(TRUE))}

\* Constant::get_unit
GetUnit ==
    /\ Running /\ RoomForValue
    /\ Becomes(insert_value(Ctx, ConstantOf(Type_Unit, ConstantValue_Unit)))
    /\ last' = Called("get_unit", 0, <<>>, next_value(Ctx))
    /\ UNCHANGED <<rewrites, status, iter>>

\* Constant::get_bool
GetBool ==
    /\ Running /\ RoomForValue
    /\ \E value \in BOOLEAN :
        /\ Becomes(insert_value(Ctx, ConstantOf(Type_Bool, ConstantValue_Bool(value))))
        /\ last' = Called("get_bool", 0, <<value>>, next_value(Ctx))
    /\ UNCHANGED <<rewrites, status, iter>>

\* Constant::get_uint
GetUint ==
    /\ Running /\ RoomForValue
    /\ \E nbits \in {64}, value \in 0..1 :
        /\ Becomes(insert_value(Ctx, ConstantOf(Type_Uint(nbits), ConstantValue_Uint(value))))
        /\ last' = Called("get_uint", 0, <<nbits, value>>, next_value(Ctx))
    /\ UNCHANGED <<rewrites, status, iter>>

\* Constant::get_b256
GetB256 ==
    /\ Running /\ RoomForValue
    /\ \E value \in {<<0, 0>>, <<0, 1>>} :
        /\ Becomes(insert_value(Ctx, ConstantOf(Type_B256, ConstantValue_B256(value))))
        /\ last' = Called("get_b256", 0, <<value>>, next_value(Ctx))
    /\ UNCHANGED <<rewrites, status, iter>>

\* Constant::get_string: the type carries the length of the string.
GetString ==
    /\ Running /\ RoomForValue
    /\ \E value \in {<<>>, <<97>>} :
        /\ Becomes(insert_value(Ctx, ConstantOf(Type_String(Len(value)),
                                                ConstantValue_String(value))))
        /\ last' = Called("get_string", 0, <<value>>, next_value(Ctx))
    /\ UNCHANGED <<rewrites, status, iter>>

\* Constant::get_array: the constant is stored as it is handed in.
GetArray ==
    /\ Running /\ RoomForValue
    /\ \E value \in AggregateArgs :
        /\ value.ty.t = "Array"
        /\ Becomes(insert_value(Ctx, value))
        /\ last' = Called("get_array", 0, <<value>>, next_value(Ctx))
    /\ UNCHANGED <<rewrites, status, iter>>

\* assert!(value.ty.is_array(context)) fails before anything is stored.
GetArrayPanic ==
    /\ Running /\ RoomForValue
    /\ \E value \in AggregateArgs :
        /\ value.ty.t # "Array"
        /\ last' = Called("get_array", 0, <<>>, "panic")
    /\ status' = "panicked"
    /\ UNCHANGED <<values, blocks, func_blocks, rewrites, iter>>

\* Constant::get_struct
GetStruct ==
    /\ Running /\ RoomForValue
    /\ \E value \in AggregateArgs :
        /\ value.ty.t = "Struct"
        /\ Becomes(insert_value(Ctx, value))
        /\ last' = Called("get_struct", 0, <<value>>, next_value(Ctx))
    /\ UNCHANGED <<rewrites, status, iter>>

\* assert!(value.ty.is_struct(context)) fails before anything is stored.
GetStructPanic ==
    /\ Running /\ RoomForValue
    /\ \E value \in AggregateArgs :
        /\ value.ty.t # "Struct"
        /\ last' = Called("get_struct", 0, <<>>, "panic")
    /\ status' = "panicked"
    /\ UNCHANGED <<values, blocks, func_blocks, rewrites, iter>>

ConstEq ==
    /\ \E self \in Values, other \in Values :
        last' = Called("Constant::eq", self, <<other>>, Constant_eq(values[self], values[other]))
    /\ UNCHANGED <<values, blocks, func_blocks, rewrites, status, iter>>

ConstNext ==
    \/ GetUnit
    \/ GetBool
    \/ GetUint
    \/ GetB256
    \/ GetString
    \/ GetArray
    \/ GetArrayPanic
    \/ GetStruct
    \/ GetStructPanic
    \/ ConstEq

ConstSpec == ConstInit /\ [][ConstNext]_vars

(***************************************************************************)
(* The iterators (block.rs, instruction.rs): one BlockIterator or          *)
(* InstructionIterator is made at some point of a run and advanced while   *)
(* the function and its blocks are rewritten.                              *)
(***************************************************************************)

\* BlockIterator { blocks, next }
BlockIterator_new(c, function) == [blocks |-> c.func_blocks, next |-> 0]

\* An iterator that looks the blocks up in the function at every call.
BlockIterator_next_live(self) ==
    IF self.next < Len(func_blocks)
    THEN [ret |-> Some(func_blocks[self.next + 1]), self |-> [self EXCEPT !.next = @ + 1]]
    ELSE [ret |-> None, self |-> self]

\* The item returned and the iterator afterwards.
BlockIterator_next(self) ==
    IF self.next < Len(self.blocks)
    THEN [ret |-> Some(self.blocks[self.next + 1]), self |-> [self EXCEPT !.next = @ + 1]]
    ELSE [ret |-> None, self |-> self]

\* InstructionIterator { instructions, next, next_back }
InstructionIterator_new(c, block) ==
    [instructions |-> c.blocks[block].instructions,
     next |-> 0,
     next_back |-> Len(c.blocks[block].instructions) - 1]

InstructionIterator_next(self) ==
    IF self.next < Len(self.instructions)
    THEN [ret |-> Some(self.instructions[self.next + 1]), self |-> [self EXCEPT !.next = @ + 1]]
    ELSE [ret |-> None, self |-> self]

InstructionIterator_next_back(self) ==
    IF self.next_back >= 0
    THEN [ret |-> Some(self.instructions[self.next_back + 1]),
          self |-> [self EXCEPT !.next_back = @ - 1]]
    ELSE [ret |-> None, self |-> self]

\* The iterator in use is kept with what the function or block held when it was made
\* and with the items next() and next_back() have returned so far.
IterOf(kind, it, held) ==
    [kind |-> kind, it |-> it, held |-> held, yielded |-> <<>>, yielded_back |-> <<>>]

Yield(i, r) ==
    [i EXCEPT !.it = r.self,
              !.yielded = IF r.ret = None THEN @ ELSE Append(@, r.ret[1])]

BlockIteratorNew ==
    /\ Running /\ iter = None
    /\ iter' = Some(IterOf("Block", BlockIterator_new(Ctx, TheFunction), func_blocks))
    /\ last' = Called("BlockIterator::new", 0, <<>>, None)
    /\ UNCHANGED <<values, blocks, func_blocks, rewrites, status>>

BlockIteratorNext ==
    /\ Running /\ iter # None /\ iter[1].kind = "Block"
    /\ iter' = Some(Yield(iter[1], BlockIterator_next(iter[1].it)))
    /\ last' = Called("BlockIterator::next", 0, <<>>, BlockIterator_next(iter[1].it).ret)
    /\ UNCHANGED <<values, blocks, func_blocks, rewrites, status>>

InstructionIteratorNew ==
    /\ Running /\ iter = None
    /\ \E b \in Blocks :
        /\ iter' = Some(IterOf("Instruction", InstructionIterator_new(Ctx, b),
                                blocks[b].instructions))
        /\ last' = Called("InstructionIterator::new", b, <<>>, None)
    /\ UNCHANGED <<values, blocks, func_blocks, rewrites, status>>

InstructionIteratorNext ==
    /\ Running /\ iter # None /\ iter[1].kind = "Instruction"
    /\ iter' = Some(Yield(iter[1], InstructionIterator_next(iter[1].it)))
    /\ last' = Called("InstructionIterator::next", 0, <<>>,
                      InstructionIterator_next(iter[1].it).ret)
    /\ UNCHANGED <<values, blocks, func_blocks, rewrites, status>>

\* next_back() has its own cursor: what it returns is not among the items of next().
InstructionIteratorNextBack ==
    /\ Running /\ iter # None /\ iter[1].kind = "Instruction"
    /\ iter' = Some([iter[1] EXCEPT
                        !.it = InstructionIterator_next_back(iter[1].it).self,
                        !.yielded_back =
                            IF InstructionIterator_next_back(iter[1].it).ret = None THEN @
                            ELSE Append(@, InstructionIterator_next_back(iter[1].it).ret[1])])
    /\ last' = Called("InstructionIterator::next_back", 0, <<>>,
                      InstructionIterator_next_back(iter[1].it).ret)
    /\ UNCHANGED <<values, blocks, func_blocks, rewrites, status>>

\* The rewriting of the function between the calls: blocks and instructions inserted,
\* instructions removed and replaced, blocks split.
IterNext ==
    \/ CreateBlockAfter
    \/ InsMake
    \/ RemoveInstruction
    \/ ReplaceInstruction
    \/ ReplaceInstructionDiverges
    \/ SplitAt
    \/ SplitAtPanic
    \/ BlockIteratorNew
    \/ BlockIteratorNext
    \/ InstructionIteratorNew
    \/ InstructionIteratorNext
    \/ InstructionIteratorNextBack

IterSpec == Init /\ [][IterNext]_vars

(***************************************************************************)
(* The predecessor sets on their own: the blocks of a function made by     *)
(* Block::new, and add_pred, remove_pred and replace_pred called on them   *)
(* directly, as a pass that rewires the control flow graph does.           *)
(***************************************************************************)

PredInit ==
    /\ values = <<Constant>>
    /\ blocks = [b \in 1..MaxBlocks |->
                    BlockContent(IF b = 1 THEN "entry" ELSE "block" \o ToString(b - 2),
                                 TheFunction)]
    /\ func_blocks = <<1>>
    /\ rewrites = 0
    /\ status = "running"
    /\ last = [op |-> "init", self |-> 0, args |-> <<>>, ret |-> None]
    /\ iter = None

\* Of each call is kept whether the predecessor set of the block changed.
AddPred ==
    /\ \E b \in Blocks, from_block \in Blocks :
        /\ Becomes(add_pred(Ctx, b, from_block))
        /\ last' = Called("add_pred", b, <<from_block>>,
                          add_pred(Ctx, b, from_block).blocks[b].preds # blocks[b].preds)
    /\ UNCHANGED <<rewrites, status, iter>>

RemovePred ==
    /\ \E b \in Blocks, from_block \in Blocks :
        /\ Becomes(remove_pred(Ctx, b, from_block))
        /\ last' = Called("remove_pred", b, <<from_block>>,
                          remove_pred(Ctx, b, from_block).blocks[b].preds # blocks[b].preds)
    /\ UNCHANGED <<rewrites, status, iter>>

ReplacePred ==
    /\ \E b \in Blocks, old_source \in Blocks, new_source \in Blocks :
        /\ Becomes(replace_pred(Ctx, b, old_source, new_source))
        /\ last' = Called("replace_pred", b, <<old_source, new_source>>,
                          replace_pred(Ctx, b, old_source, new_source).blocks[b].preds
                              # blocks[b].preds)
    /\ UNCHANGED <<rewrites, status, iter>>

PredNext == AddPred \/ RemovePred \/ ReplacePred

PredSpec == PredInit /\ [][PredNext]_vars

(***************************************************************************)
(* The labels: blocks made in one function by Block::new, with a base      *)
(* label, with a base label a block already has, or with none, and by      *)
(* split_at.                                                               *)
(***************************************************************************)

\* The Option<String> handed to Block::new.
LabelPool == {None, Some("entry"), Some("a"), Some("a0"), Some("block0")}

NewBlockLabelled ==
    /\ Running /\ RoomForBlock
    /\ \E label \in LabelPool :
        /\ Becomes(Block_new(Ctx, TheFunction, label))
        /\ last' = Called("Block::new", 0, <<label>>, next_block(Ctx))
    /\ UNCHANGED <<rewrites, status, iter>>

LabelNext == NewBlockLabelled \/ InsMake \/ SplitAt \/ SplitAtPanic

LabelSpec == Init /\ [][LabelNext]_vars

(***************************************************************************)
(* TyAstNode::is_main_function (sway-core, language/ty/ast_node.rs).  The  *)
(* declaration engine, the check! macro, CompileResult and the name of the *)
(* default entry point are not part of the sources; they are modelled from *)
(* their description.  Here `values` holds the node and `blocks` the slots  *)
(* of the declaration engine.                                              *)
(***************************************************************************)

\* Declarations held by one declaration engine.
NumDecls == 2

\* sway_types::constants::DEFAULT_ENTRY_POINT_FN_NAME
DEFAULT_ENTRY_POINT_FN_NAME == "main"

\* CompileResult { value, warnings, errors } with its constructors ok and err.
ok(value, warnings, errors) == [value |-> Some(value), warnings |-> warnings, errors |-> errors]
err(warnings, errors) == [value |-> None, warnings |-> warnings, errors |-> errors]

\* TyAstNodeContent, with the TyDeclaration of a Declaration: a FunctionDeclaration
\* carries a declaration id, the other declarations are told apart by their kind only.
TyAstNode(content, decl, decl_id) == [content |-> content, decl |-> decl, decl_id |-> decl_id]
Declaration_Function(decl_id) == TyAstNode("Declaration", "FunctionDeclaration", decl_id)
Declaration_Variable == TyAstNode("Declaration", "VariableDeclaration", 0)
Declaration_Struct(decl_id) == TyAstNode("Declaration", "StructDeclaration", decl_id)
Expression == TyAstNode("Expression", "", 0)
ImplicitReturnExpression == TyAstNode("ImplicitReturnExpression", "", 0)
SideEffect == TyAstNode("SideEffect", "", 0)

\* A slot of the declaration engine: a function with its name, or a struct.
DeclFunction(name) == [wrapper |-> "Function", name |-> name]
DeclStruct(name) == [wrapper |-> "Struct", name |-> name]

\* CompileResult::from(declaration_engine.get_function(decl_id, span)): the function
\* of the slot, or the error of a slot that holds no function.
get_function(declaration_engine, decl_id) ==
    IF declaration_engine[decl_id].wrapper = "Function"
    THEN ok(declaration_engine[decl_id], <<>>, <<>>)
    ELSE err(<<>>, <<"DeclIsNotAFunction">>)

\* A faulty is_main_function: the tree type is not looked at.
is_main_function_any_tree(self, declaration_engine, tree_type) ==
    IF self.content = "Declaration" /\ self.decl = "FunctionDeclaration"
    THEN LET res == get_function(declaration_engine, self.decl_id)
         IN IF res.value = None
            THEN err(res.warnings, res.errors)
            ELSE ok(res.value[1].name = DEFAULT_ENTRY_POINT_FN_NAME, res.warnings, res.errors)
    ELSE ok(FALSE, <<>>, <<>>)

\* TyAstNode::is_main_function.  check! appends the warnings and the errors of the
\* lookup to the local lists and, without a value, returns err(warnings, errors).
is_main_function(self, declaration_engine, tree_type) ==
    IF self.content = "Declaration" /\ self.decl = "FunctionDeclaration"
    THEN LET res == get_function(declaration_engine, self.decl_id)
             warnings == <<>> \o res.warnings
             errors == <<>> \o res.errors
         IN IF res.value = None
            THEN err(warnings, errors)
            ELSE ok(/\ res.value[1].name = DEFAULT_ENTRY_POINT_FN_NAME
                    /\ tree_type \in {"Script", "Predicate"},
                    warnings, errors)
    ELSE ok(FALSE, <<>>, <<>>)

\* parsed::TreeType
TreeTypes == {"Predicate", "Script", "Contract", "Library"}

AstNames == {"main", "Main", "main_", "foo"}

AstNodes ==
    {Declaration_Function(d) : d \in 1..NumDecls}
    \cup {Declaration_Struct(d) : d \in 1..NumDecls}
    \cup {Declaration_Variable, Expression, ImplicitReturnExpression, SideEffect}

AstDecls == {DeclFunction(n) : n \in AstNames} \cup {DeclStruct("main")}

AstInit ==
    /\ \E node \in AstNodes : values = <<node>>
    /\ blocks \in [1..NumDecls -> AstDecls]
    /\ func_blocks = <<>>
    /\ rewrites = 0
    /\ status = "running"
    /\ last = [op |-> "init", self |-> 0, args |-> <<>>, ret |-> None]
    /\ iter = None

IsMainFunction ==
    /\ \E tree_type \in TreeTypes :
        last' = Called("is_main_function", 1, <<tree_type>>,
                       is_main_function(values[1], blocks, tree_type))
    /\ UNCHANGED <<values, blocks, func_blocks, rewrites, status, iter>>

AstNext == IsMainFunction

AstSpec == AstInit /\ [][AstNext]_vars

(***************************************************************************)
(* The block invariants, stated of a context c.                            *)
(***************************************************************************)

\* B is a predecessor of S exactly when S is a destination of B's terminator.
PredMirror(c) ==
    \A B \in 1..Len(c.blocks), S \in 1..Len(c.blocks) :
        (B \in c.blocks[S].preds) <=> (S \in succ_blocks(c, B))

\* No terminator sits at a non-final position of an instruction list.
UniqueTerminator(c) ==
    \A b \in 1..Len(c.blocks) :
        \A i \in 1..(Len(c.blocks[b].instructions) - 1) :
            ~value_is_terminator(c, c.blocks[b].instructions[i])

\* The argument at position p of block b is Argument{block = b, idx = p}.
ArgBackPointer(c) ==
    \A b \in 1..Len(c.blocks) :
        \A p \in 0..(Len(c.blocks[b].args) - 1) :
            /\ c.values[c.blocks[b].args[p + 1]].kind = "Argument"
            /\ c.values[c.blocks[b].args[p + 1]].block = b
            /\ c.values[c.blocks[b].args[p + 1]].idx = p

\* Every entry of an instruction list resolves to an Instruction.
AllInstructions(c) ==
    \A b \in 1..Len(c.blocks) :
        \A i \in 1..Len(c.blocks[b].instructions) :
            c.values[c.blocks[b].instructions[i]].kind = "Instruction"

BlockInvariants(c) ==
    PredMirror(c) /\ UniqueTerminator(c) /\ ArgBackPointer(c) /\ AllInstructions(c)

Returned == status = "running"

(***************************************************************************)
(* Claims.  A claim about what a call does is stated of every reachable    *)
(* context and every input the action of that call draws: the call is      *)
(* applied to the context and its result examined.  A state left by a      *)
(* panic or a call that never returns has the context of the state before  *)
(* it, where the same calls are examined already.                          *)
(***************************************************************************)

\* C1: predecessor mirror.  In every reachable state, for all blocks B and S, B is in
\* S.preds if and only if S is a destination returned by successors(B).
C1_PredecessorMirror == PredMirror(Ctx)

\* C2: unique terminator.  In every reachable state no block holds a terminator at a
\* non-final position of its instruction list.
C2_UniqueTerminator == UniqueTerminator(Ctx)

\* C3: split_at preserves the block invariants.  If every block satisfies the
\* predecessor mirror, the unique-terminator rule, the argument back-pointer and
\* holds only Instruction entries, then so does every block, the new one included,
\* after split_at(k) for any 0 <= k <= num_instructions.
C3_SplitAtPreservesInvariants ==
    Returned => \A b \in Blocks :
        \A split_idx \in 0..num_instructions(Ctx, b) :
            (BlockInvariants(Ctx) /\ ~split_at_panics(Ctx, b, split_idx))
                => BlockInvariants(split_at(Ctx, b, split_idx))

\* split_at moved a branch to the new block of a context that satisfies the invariants.
C3_Witness ==
    /\ last.op = "split_at" /\ Returned
    /\ last.args[1] > 0
    /\ succ_blocks(Ctx, last.ret[2]) # {}
    /\ BlockInvariants(Ctx)

\* C4: replace_successor(old, new, ps) on a block with an edge to old, old # new:
\* every edge that targeted old targets new and carries ps (both edges of a
\* conditional branch when both went to old), the other edges are as before, no edge
\* targets old, the block is no predecessor of old and is a predecessor of new.
C4_ReplaceSuccessorRewrites ==
    Returned => \A b \in Blocks, old_succ \in Blocks, new_succ \in Blocks, new_params \in ArgLists :
        LET before == successors(Ctx, b)
            c2 == replace_successor(Ctx, b, old_succ, new_succ, new_params)
            after == successors(c2, b)
        IN (old_succ # new_succ /\ \E i \in 1..Len(before) : before[i].block = old_succ)
            => /\ Len(after) = Len(before)
               /\ \A i \in 1..Len(before) :
                    after[i] = IF before[i].block = old_succ
                               THEN BranchToWithArgs(new_succ, new_params)
                               ELSE before[i]
               /\ \A i \in 1..Len(after) : after[i].block # old_succ
               /\ b \notin c2.blocks[old_succ].preds
               /\ b \in c2.blocks[new_succ].preds

\* replace_successor rewrote both edges of a conditional branch.
C4_Witness ==
    /\ last.op = "replace_successor" /\ last.ret
    /\ last.args[1] # last.args[2]
    /\ Len(successors(Ctx, last.self)) = 2
    /\ \A i \in 1..2 : successors(Ctx, last.self)[i] = BranchToWithArgs(last.args[2], last.args[3])
    /\ last.args[3] # <<>>

\* C5: predecessor registration.  After branch(T, args) on E, E is in T.preds; after
\* conditional_branch(c, T, F, ta, fa) on E, E is in T.preds and in F.preds; with T = F
\* the count of T's predecessors grows by at most one, and registering a predecessor
\* that is already present changes no predecessor set.
C5_BranchRegistersPredecessor ==
    Returned =>
    /\ \A E \in Blocks, T \in Blocks, args \in ArgLists :
        LET c2 == ins_branch(Ctx, E, T, args)
        IN /\ E \in c2.blocks[T].preds
           /\ num_predecessors(c2, T) <= num_predecessors(Ctx, T) + 1
           /\ E \in blocks[T].preds => \A x \in Blocks : c2.blocks[x].preds = blocks[x].preds
    /\ \A E \in Blocks, cv \in CondValues, T \in Blocks, F \in Blocks,
          ta \in ArgLists, fa \in ArgLists :
        LET c2 == ins_conditional_branch(Ctx, E, cv, T, F, ta, fa)
        IN /\ E \in c2.blocks[T].preds
           /\ E \in c2.blocks[F].preds
           /\ T = F => num_predecessors(c2, T) <= num_predecessors(Ctx, T) + 1
           /\ \A x \in Blocks \ {T, F} : c2.blocks[x].preds = blocks[x].preds
           /\ (E \in blocks[T].preds /\ E \in blocks[F].preds)
                => \A x \in Blocks : c2.blocks[x].preds = blocks[x].preds

\* A conditional branch whose two edges go to the same block registered its block once.
C5_Witness ==
    /\ last.op = "conditional_branch"
    /\ last.args[2] = last.args[3]
    /\ blocks[last.args[2]].preds = {last.self}

\* C6: build/decode round trip.  On a block with no terminator, branch(T, args) makes
\* successors return [(T, args)] and conditional_branch(c, T, F, ta, fa) makes it return
\* [(T, ta), (F, fa)], in that order, also when T = F; an empty block and a block whose
\* last instruction is Ret, Revert or no terminator have no successors.
C6_BuildDecodeRoundTrip ==
    Returned =>
    /\ \A E \in Blocks, T \in Blocks, args \in ArgLists :
        ~is_terminated(Ctx, E)
            => successors(ins_branch(Ctx, E, T, args), E) = <<BranchToWithArgs(T, args)>>
    /\ \A E \in Blocks, cv \in CondValues, T \in Blocks, F \in Blocks,
          ta \in ArgLists, fa \in ArgLists :
        ~is_terminated(Ctx, E)
            => successors(ins_conditional_branch(Ctx, E, cv, T, F, ta, fa), E)
                 = <<BranchToWithArgs(T, ta), BranchToWithArgs(F, fa)>>
    /\ \A b \in Blocks :
        LET is == blocks[b].instructions
        IN (\/ is = <<>>
            \/ values[is[Len(is)]].kind # "Instruction"
            \/ values[is[Len(is)]].ins.op \notin {"Branch", "ConditionalBranch"})
            => successors(Ctx, b) = <<>>

\* A conditional branch to one block with two different argument lists was built on a
\* block that had no terminator, and decodes to its two edges in order.
C6_Witness ==
    /\ last.op = "conditional_branch"
    /\ last.args[2] = last.args[3]
    /\ last.args[4] # last.args[5]
    /\ ~\E i \in 1..(Len(blocks[last.self].instructions) - 1) :
            value_is_terminator(Ctx, blocks[last.self].instructions[i])
    /\ successors(Ctx, last.self) = <<BranchToWithArgs(last.args[2], last.args[4]),
                                      BranchToWithArgs(last.args[3], last.args[5])>>

\* C7: split round trip.  split_at(k) on a block with instruction list L, 0 <= k <=
\* len(L), returns (prefix, suffix) with prefix holding L[0..k] and suffix L[k..];
\* their concatenation is L.
C7_SplitRoundTrip ==
    Returned => \A b \in Blocks :
        \A split_idx \in 0..num_instructions(Ctx, b) :
            LET L == blocks[b].instructions
                c2 == split_at(Ctx, b, split_idx)
                r == split_at_ret(Ctx, b, split_idx)
            IN ~split_at_panics(Ctx, b, split_idx)
                => /\ c2.blocks[r[1]].instructions = SubSeq(L, 1, split_idx)
                   /\ c2.blocks[r[2]].instructions = SubSeq(L, split_idx + 1, Len(L))
                   /\ c2.blocks[r[1]].instructions \o c2.blocks[r[2]].instructions = L
                   /\ r[1] # r[2]

\* split_at cut a list of two instructions in the middle.
C7_Witness ==
    /\ last.op = "split_at" /\ Returned
    /\ last.args[1] = 1
    /\ Len(blocks[last.ret[1]].instructions) = 1
    /\ Len(blocks[last.ret[2]].instructions) = 1

\* C8: argument back-pointer.  For every block B and position p < num_args(B), B.args[p]
\* is an Argument with block B and idx p; new_arg returns the position of the argument
\* it appends, the previous argument count.
C8_ArgumentBackPointer ==
    /\ ArgBackPointer(Ctx)
    /\ Returned => \A b \in Blocks :
        LET c2 == new_arg(Ctx, b)
            idx == new_arg_idx(Ctx, b)
        IN /\ idx = num_args(Ctx, b)
           /\ num_args(c2, b) = idx + 1
           /\ c2.values[c2.blocks[b].args[idx + 1]] = Argument(b, idx)
           /\ ArgBackPointer(c2)

\* split_at(0) moved arguments to the new block, and the emptied block then took an
\* argument through add_arg.
C8_Witness ==
    /\ last.op = "add_arg" /\ Returned
    /\ \E nb \in Blocks : nb # last.self /\ num_args(Ctx, nb) > 0
                          /\ position(func_blocks, nb) + 1 = position(func_blocks, last.self)
                          /\ blocks[nb].instructions = <<>>
    /\ rewrites > 0

\* C9: if old occurs in B's instruction list, replace_instruction(old, new) returns Ok,
\* puts new where old was, leaving the length and every other entry as they were, and
\* afterwards no instruction of any block of B's function has old as an operand.
\* (Stated for old # new: with old = new an operand equal to old cannot go away.)
C9_ReplaceInstructionRewritesAllUses ==
    Returned => \A b \in Blocks, old_instr_val \in Values, new_instr_val \in Values :
        LET L == blocks[b].instructions
            c2 == replace_instruction(Ctx, b, old_instr_val, new_instr_val)
            L2 == c2.blocks[b].instructions
        IN (/\ old_instr_val # new_instr_val
            /\ \E i \in 1..Len(L) : L[i] = old_instr_val
            /\ ~replace_instruction_diverges(Ctx, b, old_instr_val, new_instr_val))
            => /\ replace_instruction_ret(Ctx, b, old_instr_val) = "Ok"
               /\ Len(L2) = Len(L)
               /\ \E i \in 1..Len(L) :
                    /\ L[i] = old_instr_val /\ L2[i] = new_instr_val
                    /\ \A j \in 1..Len(L) : j # i => L2[j] = L[j]
               /\ \A x \in {b} \cup {func_blocks[k] : k \in 1..Len(func_blocks)} :
                    \A i \in 1..Len(c2.blocks[x].instructions) :
                        LET v == c2.blocks[x].instructions[i]
                        IN c2.values[v].kind = "Instruction"
                            => \A k \in 1..Len(get_operands(c2.values[v].ins)) :
                                   get_operands(c2.values[v].ins)[k] # old_instr_val

\* C10: if old does not occur in B's instruction list, replace_instruction(old, new)
\* returns ValueNotFound and leaves the whole context as it was.
C10_ReplaceInstructionNotFound ==
    Returned => \A b \in Blocks, old_instr_val \in Values, new_instr_val \in Values :
        (~\E i \in 1..Len(blocks[b].instructions) : blocks[b].instructions[i] = old_instr_val)
            => /\ replace_instruction_ret(Ctx, b, old_instr_val) = "ValueNotFound"
               /\ ~replace_instruction_diverges(Ctx, b, old_instr_val, new_instr_val)
               /\ replace_instruction(Ctx, b, old_instr_val, new_instr_val) = Ctx

\* replace_instruction returned ValueNotFound in a context where two blocks hold
\* instructions, one of them with an operand.
C10_Witness ==
    /\ last.op = "replace_instruction" /\ Returned
    /\ last.ret = "ValueNotFound"
    /\ \E b \in Blocks, x \in Blocks :
        /\ b # x /\ blocks[x].instructions # <<>>
        /\ \E i \in 1..Len(blocks[b].instructions) :
            LET v == blocks[b].instructions[i]
            IN values[v].kind = "Instruction" /\ get_operands(values[v].ins) # <<>>

\* A map that sends every operand of ins to a value that is neither one of its operands
\* nor a key of the map.
SendsOperandsToFresh(m, ins) ==
    LET ops == get_operands(ins)
    IN /\ \A i \in 1..Len(ops) : ops[i] \in DOMAIN m
       /\ \A k \in DOMAIN m :
            m[k] \notin DOMAIN m /\ (\A i \in 1..Len(ops) : ops[i] # m[k])

\* C11: operand coverage.  For every instruction and every map m that sends each of its
\* operands to a fresh value, get_operands after replace_values(m) is the element-wise
\* image under m of get_operands before.
C11_OperandCoverage ==
    Returned => \A v \in InsInstructions, m \in ReplaceMaps :
        LET ins == values[v].ins
            ops == get_operands(ins)
        IN SendsOperandsToFresh(m, ins)
            => get_operands(replace_values(ins, m)) = [i \in 1..Len(ops) |-> m[ops[i]]]

\* C12: replace fixed point.  For every instruction and every replacement map on which
\* replace_values returns, applying it a second time returns too and changes nothing.
C12_ReplaceFixedPoint ==
    Returned => \A v \in InsInstructions, m \in ReplaceMaps :
        LET ins == values[v].ins
            once == replace_values(ins, m)
        IN ~replace_values_diverges(ins, m)
            => /\ ~replace_values_diverges(once, m)
               /\ replace_values(once, m) = once

\* replace_values followed a chain of two entries of the map on both operands of a
\* BinaryOp.
C12_Witness ==
    /\ last.op = "replace_values" /\ Returned
    /\ rewrites = 1
    /\ last.args[1] = (1 :> 2 @@ 2 :> 3)
    /\ values[last.self].ins = BinaryOp(3, 3)

\* C19 as claimed: get_type is None for the terminators, the Unit type for Store, MemCopy,
\* Log, Smo, StateStoreWord, StateStoreQuadWord and Nop, Bool for Cmp and the type of its
\* first argument for BinaryOp.
C19_GetTypeNopIsUnit ==
    Returned => \A v \in InsInstructions :
        LET ins == values[v].ins
            ty == get_type(Ctx, ins)
        IN /\ ins.op \in {"Branch", "ConditionalBranch", "Ret", "Revert"} => ty = None
           /\ ins.op \in {"Store", "MemCopy", "Log", "Smo", "StateStoreWord",
                           "StateStoreQuadWord", "Nop"} => ty = Some(Type_Unit)
           /\ ins.op = "Cmp" => ty = Some(Type_Bool)
           /\ ins.op = "BinaryOp" => ty = Value_get_type(Ctx, ins.arg1)

\* C19, amended: get_type is None for the terminators and for Nop, the Unit type for
\* Store, MemCopy, Log, Smo, StateStoreWord and StateStoreQuadWord, Bool for Cmp and the
\* type of its first argument for BinaryOp.
C19_GetType ==
    Returned => \A v \in InsInstructions :
        LET ins == values[v].ins
            ty == get_type(Ctx, ins)
        IN /\ ins.op \in {"Branch", "ConditionalBranch", "Ret", "Revert", "Nop"} => ty = None
           /\ ins.op \in {"Store", "MemCopy", "Log", "Smo", "StateStoreWord",
                           "StateStoreQuadWord"} => ty = Some(Type_Unit)
           /\ ins.op = "Cmp" => ty = Some(Type_Bool)
           /\ ins.op = "BinaryOp" => ty = Value_get_type(Ctx, ins.arg1)

\* get_type was asked of a Nop and answered None.
C19_Witness ==
    /\ last.op = "get_type"
    /\ values[last.self].ins.op = "Nop"
    /\ last.ret = None

\* C20 as claimed: may_have_side_effect is true for Call, ContractCall, Store, MemCopy,
\* Log, Smo, the four state accesses, AsmBlock, InsertElement and InsertValue, and false
\* for BinaryOp, Cmp, ExtractElement, ExtractValue, Load, AddrOf, BitCast, Branch,
\* ConditionalBranch, Ret and Nop.
C20_SideEffectStateLoadWord ==
    Returned => \A v \in InsInstructions :
        LET ins == values[v].ins
        IN /\ ins.op \in {"Call", "ContractCall", "Store", "MemCopy", "Log", "Smo",
                           "StateStoreWord", "StateStoreQuadWord", "StateLoadWord",
                           "StateLoadQuadWord", "AsmBlock", "InsertElement", "InsertValue"}
                => may_have_side_effect(ins)
           /\ ins.op \in {"BinaryOp", "Cmp", "ExtractElement", "ExtractValue", "Load",
                           "AddrOf", "BitCast", "Branch", "ConditionalBranch", "Ret", "Nop"}
                => ~may_have_side_effect(ins)

\* C20, amended: may_have_side_effect is true for Call, ContractCall, Store, MemCopy, Log,
\* Smo, StateStoreWord, StateStoreQuadWord, StateLoadQuadWord, AsmBlock, InsertElement and
\* InsertValue, and false for StateLoadWord, BinaryOp, Cmp, ExtractElement, ExtractValue,
\* Load, AddrOf, BitCast, Branch, ConditionalBranch, Ret and Nop.
C20_SideEffect ==
    Returned => \A v \in InsInstructions :
        LET ins == values[v].ins
        IN /\ ins.op \in {"Call", "ContractCall", "Store", "MemCopy", "Log", "Smo",
                           "StateStoreWord", "StateStoreQuadWord",
                           "StateLoadQuadWord", "AsmBlock", "InsertElement", "InsertValue"}
                => may_have_side_effect(ins)
           /\ ins.op \in {"StateLoadWord", "BinaryOp", "Cmp", "ExtractElement",
                           "ExtractValue", "Load", "AddrOf", "BitCast", "Branch",
                           "ConditionalBranch", "Ret", "Nop"}
                => ~may_have_side_effect(ins)

\* may_have_side_effect was asked of a StateLoadWord and answered false.
C20_Witness ==
    /\ last.op = "may_have_side_effect"
    /\ values[last.self].ins.op = "StateLoadWord"
    /\ last.ret = FALSE

\* C13: get_terminator returns the last instruction of a block if and only if that
\* instruction is a terminator; for an empty block and for a block whose last
\* instruction is no terminator it returns None.
C13_GetTerminatorOnlyTerminators ==
    Returned => \A b \in Blocks :
        LET is == blocks[b].instructions
        IN get_terminator(Ctx, b) =
             IF is # <<>> /\ value_is_terminator(Ctx, is[Len(is)])
             THEN Some(values[is[Len(is)]].ins)
             ELSE None

\* C14: remove_instruction called with the value that is the block's terminator is
\* rejected: the terminator stays in the block's instruction list.
C14_RemoveTerminatorRejected ==
    Returned => \A b \in Blocks, instr_val \in Values :
        LET is == blocks[b].instructions
        IN (is # <<>> /\ is[Len(is)] = instr_val /\ value_is_terminator(Ctx, instr_val))
            => remove_instruction(Ctx, b, instr_val).blocks[b].instructions = is

\* C15: add_arg(arg) appends arg to the block's argument list, and changes nothing else,
\* when arg is an Argument whose block is this block and whose idx is the current
\* argument count; for a constant, an instruction, an argument of another block or an
\* argument with another index it aborts.
C15_AddArgChecksBackPointer ==
    Returned => \A b \in Blocks, arg \in Values :
        LET d == values[arg]
            c2 == add_arg(Ctx, b, arg)
        IN /\ (d.kind = "Argument" /\ d.block = b /\ d.idx = num_args(Ctx, b))
                => /\ add_arg_ok(Ctx, b, arg)
                   /\ c2.blocks[b].args = Append(blocks[b].args, arg)
                   /\ c2 = [Ctx EXCEPT !.blocks[b].args = c2.blocks[b].args]
           /\ d.kind \in {"Constant", "Instruction"} => ~add_arg_ok(Ctx, b, arg)
           /\ (d.kind = "Argument" /\ d.block # b) => ~add_arg_ok(Ctx, b, arg)
           /\ (d.kind = "Argument" /\ d.idx # num_args(Ctx, b)) => ~add_arg_ok(Ctx, b, arg)

\* add_arg took the first argument of a block while another argument of that block,
\* with an index that is not the next one, and a constant were there to be refused.
C15_Witness ==
    /\ last.op = "add_arg" /\ Returned
    /\ blocks[last.self].args = <<last.args[1]>>
    /\ values[last.args[1]] = Argument(last.self, 0)
    /\ \E arg \in Values : /\ arg # last.args[1]
                            /\ values[arg].kind = "Argument"
                            /\ values[arg].block = last.self
                            /\ values[arg].idx # 1

\* Structural equality as the claim states it: equal types, no Undef, the same variant
\* with equal payloads, aggregates with as many children, pairwise equal.
RECURSIVE StructurallyEqual(_, _)
StructurallyEqual(c1, c2) ==
    /\ c1.ty = c2.ty
    /\ c1.value.v # "Undef" /\ c2.value.v # "Undef"
    /\ c1.value.v = c2.value.v
    /\ IF c1.value.v \in {"Array", "Struct"}
       THEN /\ Len(c1.value.children) = Len(c2.value.children)
            /\ \A i \in 1..Len(c1.value.children) :
                 StructurallyEqual(c1.value.children[i], c2.value.children[i])
       ELSE c1.value = c2.value

\* C16: Constant::eq(c1, c2) is true if and only if the types are equal, neither value
\* is Undef and the values are the same variant with equal payloads, two Array or two
\* Struct values having the same number of children, pairwise equal.
C16_ConstantEqStructural ==
    \A self \in Values, other \in Values :
        Constant_eq(values[self], values[other]) <=> StructurallyEqual(values[self], values[other])

\* Constant::eq compared two arrays of one type and as many children, equal in the
\* first child and different in the last, and found them different.
C16_Witness ==
    /\ last.op = "Constant::eq"
    /\ last.self # last.args[1]
    /\ values[last.self].value.v = "Array"
    /\ values[last.self].ty = values[last.args[1]].ty
    /\ Len(values[last.self].value.children) = MaxChildren
    /\ Constant_eq(values[last.self].value.children[1], values[last.args[1]].value.children[1])
    /\ ~Constant_eq(values[last.self].value.children[MaxChildren],
                    values[last.args[1]].value.children[MaxChildren])
    /\ last.ret = FALSE

\* C17: Undef is equal to nothing.  For every constant u whose value is Undef and every
\* constant c, u itself included, eq(u, c) and eq(c, u) are false.
C17_UndefEqualsNothing ==
    \A u \in Values, c \in Values :
        values[u].value = ConstantValue_Undef
            => ~Constant_eq(values[u], values[c]) /\ ~Constant_eq(values[c], values[u])

\* An Undef was compared with another Undef of the same type and found different.
C17_Witness ==
    /\ last.op = "Constant::eq"
    /\ last.self # last.args[1]
    /\ values[last.self] = ConstantOf(Type_Bool, ConstantValue_Undef)
    /\ values[last.args[1]] = ConstantOf(Type_Bool, ConstantValue_Undef)
    /\ last.ret = FALSE

\* The items s is the beginning of the list t, in the same order.
IsPrefix(s, t) == Len(s) <= Len(t) /\ \A i \in 1..Len(s) : s[i] = t[i]

\* C18: snapshot iteration.  Whatever insertions, removals, replacements and splits are
\* made between the calls, the items next() has returned are, in order, the beginning
\* of the list the function (BlockIterator) or the block (InstructionIterator) held when
\* the iterator was made; a call that returns an item returns the next one of that list,
\* and next() returns None exactly when the whole of that list has been returned.
C18_SnapshotIteration ==
    iter # None =>
        /\ IsPrefix(iter[1].yielded, iter[1].held)
        /\ last.op \in {"BlockIterator::next", "InstructionIterator::next"} =>
              IF last.ret = None
              THEN iter[1].yielded = iter[1].held
              ELSE last.ret = Some(iter[1].held[Len(iter[1].yielded)])

\* An InstructionIterator has come to its end after the block it was made for lost one
\* of the instructions it held and gained another one: the first was returned, the
\* second was not.
C18_Witness ==
    /\ iter # None
    /\ iter[1].kind = "Instruction"
    /\ last.op = "InstructionIterator::next"
    /\ last.ret = None
    /\ iter[1].yielded # <<>>
    /\ \E b \in Blocks :
        /\ \E i \in 1..Len(iter[1].yielded) : position(blocks[b].instructions, iter[1].yielded[i]) = 0
        /\ \E j \in 1..Len(blocks[b].instructions) : position(iter[1].yielded, blocks[b].instructions[j]) = 0
        /\ \A k \in Blocks : k # b => blocks[k].instructions = <<>>

\* A BlockIterator has come to its end after a block was added to the function: the
\* new block was not visited.
C18_BlockIteratorDone ==
    /\ iter # None
    /\ iter[1].kind = "Block"
    /\ last.op = "BlockIterator::next"
    /\ last.ret = None
    /\ iter[1].yielded = iter[1].held
    /\ Len(func_blocks) > Len(iter[1].held)

\* The last entry of b's instruction list is an instruction of one of the kinds.
LastInstructionIs(c, b, kinds) ==
    LET is == c.blocks[b].instructions
    IN /\ is # <<>>
       /\ c.values[is[Len(is)]].kind = "Instruction"
       /\ c.values[is[Len(is)]].ins.op \in kinds

\* C21: termination query.  For every block B, is_terminated(B) is true exactly when B
\* has an instruction and its last one is a Branch, ConditionalBranch, Ret or Revert;
\* is_terminated_by_ret_or_revert(B) is true exactly when that last one is a Ret or a
\* Revert, and then B is terminated and has no successors.
C21_TerminationQuery ==
    \A b \in Blocks :
        /\ is_terminated(Ctx, b)
              <=> LastInstructionIs(Ctx, b, {"Branch", "ConditionalBranch", "Ret", "Revert"})
        /\ is_terminated_by_ret_or_revert(Ctx, b)
              <=> LastInstructionIs(Ctx, b, {"Ret", "Revert"})
        /\ is_terminated_by_ret_or_revert(Ctx, b)
              => is_terminated(Ctx, b) /\ successors(Ctx, b) = <<>>

\* A block has just been ended by a Revert while another block ends in a Branch: both
\* are terminated, only the first by ret or revert.
C21_Witness ==
    /\ last.op = "revert"
    /\ is_terminated_by_ret_or_revert(Ctx, last.self)
    /\ \E b \in Blocks :
        /\ LastInstructionIs(Ctx, b, {"Branch"})
        /\ is_terminated(Ctx, b)
        /\ ~is_terminated_by_ret_or_revert(Ctx, b)

\* C22: add_pred and remove_pred are idempotent.  add_pred(P) on a block that has P and
\* remove_pred(P) on a block that has not leave the context as it was; a second
\* add_pred(P) or remove_pred(P) changes nothing after the first; and neither touches
\* the predecessor set of another block.
C22_PredIdempotent ==
    \A b \in Blocks, P \in Blocks :
        /\ P \in blocks[b].preds => add_pred(Ctx, b, P) = Ctx
        /\ P \notin blocks[b].preds => remove_pred(Ctx, b, P) = Ctx
        /\ add_pred(add_pred(Ctx, b, P), b, P) = add_pred(Ctx, b, P)
        /\ remove_pred(remove_pred(Ctx, b, P), b, P) = remove_pred(Ctx, b, P)
        /\ \A o \in Blocks \ {b} :
              /\ add_pred(Ctx, b, P).blocks[o].preds = blocks[o].preds
              /\ remove_pred(Ctx, b, P).blocks[o].preds = blocks[o].preds

\* add_pred(P) was called on a block that already had P among other predecessors, and
\* its predecessor set did not change.
C22_Witness ==
    /\ last.op = "add_pred"
    /\ last.ret = FALSE
    /\ last.args[1] \in blocks[last.self].preds
    /\ Cardinality(blocks[last.self].preds) > 1

\* C23: get_succ_params(succ) of a block B returns an argument list that the terminator
\* of B passes to succ on an edge to it, and the empty list when succ is not a
\* destination of the terminator: when B is empty or ends in a Ret, a Revert or an
\* instruction that is not a terminator.  (The query takes the context by shared
\* reference; it is an operator of the context and has no next state.)
C23_GetSuccParams ==
    \A B \in Blocks, succ \in Blocks :
        LET ss == successors(Ctx, B)
        IN /\ succ \in succ_blocks(Ctx, B) =>
                \E i \in 1..Len(ss) :
                    ss[i].block = succ /\ get_succ_params(Ctx, B, succ) = ss[i].args
           /\ succ \notin succ_blocks(Ctx, B) => get_succ_params(Ctx, B, succ) = <<>>
           /\ ~LastInstructionIs(Ctx, B, {"Branch", "ConditionalBranch"}) =>
                get_succ_params(Ctx, B, succ) = <<>>

\* A conditional branch to two different blocks has just been built, passing an
\* argument on the false edge only: get_succ_params gives that list for the false
\* block and the empty list for the true block.
C23_Witness ==
    /\ last.op = "conditional_branch"
    /\ last.args[2] # last.args[3]
    /\ last.args[4] = <<>>
    /\ last.args[5] # <<>>
    /\ get_succ_params(Ctx, last.self, last.args[3]) = last.args[5]
    /\ get_succ_params(Ctx, last.self, last.args[2]) = <<>>

\* The block Block::new makes in c: empty, pointing back to the function, and nothing
\* else of the arenas changed.
NewBlockIsEmpty(c, function) ==
    LET c2 == Block_new(c, function, None)
        nb == next_block(c)
    IN /\ Len(c2.blocks) = nb
       /\ c2.blocks[nb].instructions = <<>>
       /\ c2.blocks[nb].args = <<>>
       /\ c2.blocks[nb].preds = {}
       /\ c2.blocks[nb].function = function
       /\ \A b \in 1..Len(c.blocks) : c2.blocks[b] = c.blocks[b]
       /\ c2.values = c.values

\* The blocks a BlockIterator made in c visits, in order.
Visited(c) == BlockIterator_new(c, TheFunction).blocks

\* C24 as stated: Block::new(ctx, function, label) creates an empty block whose function
\* back-pointer is function and appends it to the function's ordered block list, so
\* that a BlockIterator constructed afterwards visits it.
C24_BlockNewAppends ==
    Returned =>
        /\ NewBlockIsEmpty(Ctx, TheFunction)
        /\ Block_new(Ctx, TheFunction, None).func_blocks = Append(func_blocks, next_block(Ctx))
        /\ position(Visited(Block_new(Ctx, TheFunction, None)), next_block(Ctx)) # 0

\* C24, amended: Block::new creates an empty block whose function back-pointer is
\* function and inserts it in the block arena of the context; the function's ordered
\* block list is left as it was, so that a BlockIterator constructed afterwards visits
\* the blocks it visited before and not the new one.
C24_BlockNew ==
    Returned =>
        /\ NewBlockIsEmpty(Ctx, TheFunction)
        /\ Block_new(Ctx, TheFunction, None).func_blocks = func_blocks
        /\ Visited(Block_new(Ctx, TheFunction, None)) = Visited(Ctx)
        /\ position(Visited(Block_new(Ctx, TheFunction, None)), next_block(Ctx)) = 0

\* Block::new has just returned a block: it is the last of the arena, it is empty and
\* the function, which lists its entry block, does not list it.
C24_Witness ==
    /\ last.op = "Block::new"
    /\ last.ret = Len(blocks)
    /\ blocks[last.ret] = BlockContent(blocks[last.ret].label, TheFunction)
    /\ position(func_blocks, last.ret) = 0
    /\ func_blocks = <<1>>

C26_ValComingFrom ==
    Returned =>
        \A a \in Values, from_block \in Blocks :
            values[a].kind = "Argument" =>
                LET B == values[a].block
                    idx == values[a].idx
                    ss == successors(Ctx, from_block)
                    passed == {ss[i].args[idx + 1] :
                                  i \in {j \in 1..Len(ss) :
                                            ss[j].block = B /\ idx < Len(ss[j].args)}}
                IN /\ from_block \in blocks[B].preds /\ passed # {} =>
                        get_val_coming_from(Ctx, values[a], from_block)
                            \subseteq {Returns(Some(v)) : v \in passed}
                   /\ B \notin succ_blocks(Ctx, from_block) =>
                        get_val_coming_from(Ctx, values[a], from_block) = {Returns(None)}

\* From c to c2 one instruction value was allocated and appended to the instruction
\* list of block b; the entries b had keep their places, the other blocks keep their
\* lists, no argument list, no block and no other value changed.
AppendsOneInstruction(c, c2, b) ==
    /\ Len(c2.values) = Len(c.values) + 1
    /\ c2.values[Len(c2.values)].kind = "Instruction"
    /\ \A v \in 1..Len(c.values) : c2.values[v] = c.values[v]
    /\ c2.blocks[b].instructions = Append(c.blocks[b].instructions, Len(c2.values))
    /\ Len(c2.blocks) = Len(c.blocks)
    /\ \A o \in 1..Len(c.blocks) :
          /\ o # b => c2.blocks[o].instructions = c.blocks[o].instructions
          /\ c2.blocks[o].args = c.blocks[o].args
    /\ c2.func_blocks = c.func_blocks

PredsUnchanged(c, c2) == \A o \in 1..Len(c.blocks) : c2.blocks[o].preds = c.blocks[o].preds

\* C27: every InstructionInserter constructor method allocates one instruction value
\* and appends it as the last entry of the instruction list of its block; the entries
\* the block had keep their order, the lists of the other blocks and all the argument
\* lists are unchanged, and no method but branch and conditional_branch changes a
\* predecessor set.
C27_InserterFrame ==
    Returned =>
        \A b \in Blocks :
            /\ \A ctor \in Ctors :
                  /\ AppendsOneInstruction(Ctx, make_instruction(Ctx, b, ctor), b)
                  /\ PredsUnchanged(Ctx, make_instruction(Ctx, b, ctor))
            /\ \A value \in Operands :
                  /\ AppendsOneInstruction(Ctx, ins_ret(Ctx, b, value), b)
                  /\ PredsUnchanged(Ctx, ins_ret(Ctx, b, value))
                  /\ AppendsOneInstruction(Ctx, ins_revert(Ctx, b, value), b)
                  /\ PredsUnchanged(Ctx, ins_revert(Ctx, b, value))
            /\ \A to_block \in Blocks, dest_params \in ArgLists :
                  AppendsOneInstruction(Ctx, ins_branch(Ctx, b, to_block, dest_params), b)
            /\ \A cond_value \in CondValues, true_block \in Blocks, false_block \in Blocks :
                  \A true_dest_params \in ArgLists, false_dest_params \in ArgLists :
                      AppendsOneInstruction(Ctx,
                          ins_conditional_branch(Ctx, b, cond_value, true_block, false_block,
                                                 true_dest_params, false_dest_params), b)

\* An inserter has just appended an instruction to a block that already held one, in a
\* function of two blocks: the new value is the last entry, after the old one.
C27_Witness ==
    /\ last.op \in {"ins", "ret", "revert", "branch", "conditional_branch"}
    /\ Len(blocks) > 1
    /\ Len(blocks[last.self].instructions) = 2
    /\ blocks[last.self].instructions[2] = last.ret
    /\ last.ret = Len(values)
    /\ values[last.ret].kind = "Instruction"

\* Every handle of c is a handle of c2: the arenas have not shrunk, each value is of
\* the kind it was, each block belongs to the function it belonged to, and the blocks
\* listed in the function are still listed.
KeepsHandles(c, c2) ==
    /\ Len(c2.values) >= Len(c.values)
    /\ \A v \in 1..Len(c.values) : c2.values[v].kind = c.values[v].kind
    /\ Len(c2.blocks) >= Len(c.blocks)
    /\ \A b \in 1..Len(c.blocks) : c2.blocks[b].function = c.blocks[b].function
    /\ \A i \in 1..Len(c.func_blocks) :
          \E j \in 1..Len(c2.func_blocks) : c2.func_blocks[j] = c.func_blocks[i]

\* C28: no inserter call and no Block operation removes a block or a value from the
\* arenas of the context: every handle valid before the call is valid after it, and a
\* value taken out of an instruction list by remove_instruction or replace_instruction
\* stays allocated.  Stated of every step the program takes (each inserter method,
\* new_arg, add_arg, replace_successor, replace_values, remove_instruction,
\* replace_instruction and split_at, the calls that panic part-way included), and of
\* add_pred, remove_pred and replace_pred called on any blocks of the context.
C28_StableIdentity ==
    /\ [][KeepsHandles(Ctx, [values |-> values', blocks |-> blocks',
                               func_blocks |-> func_blocks'])]_vars
    /\ [](\A b \in Blocks, from_block \in Blocks :
             /\ KeepsHandles(Ctx, add_pred(Ctx, b, from_block))
             /\ KeepsHandles(Ctx, remove_pred(Ctx, b, from_block))
             /\ \A new_source \in Blocks :
                   KeepsHandles(Ctx, replace_pred(Ctx, b, from_block, new_source)))

\* remove_instruction has taken a branch, the last value of the arena, out of the
\* instruction list of a block that has an argument: the value is in no list any more
\* and is still an instruction of the arena.
C28_Witness ==
    /\ last.op = "remove_instruction"
    /\ last.ret = TRUE
    /\ last.args[1] = Len(values)
    /\ values[last.args[1]].kind = "Instruction"
    /\ values[last.args[1]].ins.op = "Branch"
    /\ blocks[last.self].args # <<>>
    /\ \A b \in Blocks : position(blocks[b].instructions, last.args[1]) = 0

\* Every chain of the map ends: no key leads back to a key for ever.
Acyclic(replace_map) == \A v \in DOMAIN replace_map : ~replace_diverges(replace_map, v)

\* The operands of the value v of context c, none when v is not an instruction.
operands_of(c, v) ==
    IF c.values[v].kind = "Instruction" THEN get_operands(c.values[v].ins) ELSE <<>>

\* C29: Block::replace_values(map) applies the map transitively to every operand
\* slot of every instruction of the block: afterwards no operand of an instruction of
\* the block is a key of the map, each operand holds the end of the chain of the value
\* it started as, and the instructions of the other blocks are not changed.
C29_ReplaceValuesTransitive ==
    Returned =>
        \A b \in Blocks, replace_map \in ValueMaps :
            Acyclic(replace_map) =>
                \A c2 \in {block_replace_values(Ctx, b, replace_map)} :
                    /\ \A i \in 1..Len(blocks[b].instructions) :
                          \A v \in {blocks[b].instructions[i]} :
                              /\ operands_of(c2, v) = replace_each(replace_map, operands_of(Ctx, v))
                              /\ \A k \in 1..Len(operands_of(c2, v)) :
                                    operands_of(c2, v)[k] \notin DOMAIN replace_map
                    /\ \A v \in Values :
                          position(blocks[b].instructions, v) = 0 => c2.values[v] = values[v]

\* C30: replace_successor(old, new, ps) on a block whose terminator has no edge to old
\* (a block with no terminator, or one ending in Ret or Revert, included) changes
\* nothing: every value, so the terminator with its destinations and argument lists,
\* and the predecessor set of every block are as before; the block is not added to
\* the predecessors of new.
C30_ReplaceSuccessorNoEdge ==
    Returned =>
        \A b \in Blocks, old_succ \in Blocks :
            old_succ \notin succ_blocks(Ctx, b) =>
                \A new_succ \in Blocks, new_params \in ArgLists :
                    \A c2 \in {replace_successor(Ctx, b, old_succ, new_succ, new_params)} :
                        /\ c2.values = values
                        /\ PredsUnchanged(Ctx, c2)
                        /\ c2.blocks = blocks

\* replace_successor has been called on a block without an edge to old and has changed
\* nothing, in a function where some block ends in a branch and another in no branch.
C30_Witness ==
    /\ last.op = "replace_successor"
    /\ last.ret = FALSE
    /\ \E b \in Blocks : successors(Ctx, b) # <<>>
    /\ \E b \in Blocks : successors(Ctx, b) = <<>>

\* C31: split_at(0) on a block B of the function creates a new empty block placed
\* immediately before B in the block order of the function and returns (new, B); the
\* argument list of the new block is the list B had, in the same order; each migrated
\* Argument keeps its handle and idx and has its block field set to the new block; B
\* keeps all of its instructions and ends with no arguments.
C31_SplitAtZero ==
    Returned =>
        \A b \in Blocks :
            ~split_at_panics(Ctx, b, 0) =>
                \A c2 \in {split_at(Ctx, b, 0)}, new_block \in {next_block(Ctx)} :
                    /\ split_at_ret(Ctx, b, 0) = <<new_block, b>>
                    /\ Len(c2.blocks) = Len(blocks) + 1
                    /\ c2.blocks[new_block].instructions = <<>>
                    /\ position(c2.func_blocks, new_block) + 1 = position(c2.func_blocks, b)
                    /\ position(c2.func_blocks, new_block) = position(func_blocks, b)
                    /\ c2.blocks[new_block].args = blocks[b].args
                    /\ \A i \in 1..Len(blocks[b].args) :
                          c2.values[blocks[b].args[i]] = Argument(new_block, i - 1)
                    /\ Len(c2.values) = Len(values)
                    /\ c2.blocks[b].instructions = blocks[b].instructions
                    /\ c2.blocks[b].args = <<>>

\* split_at(0) has moved an argument of a block that holds an instruction to the new
\* block in front of it.
C31_Witness ==
    /\ last.op = "split_at" /\ Returned
    /\ last.args[1] = 0
    /\ last.ret[2] = last.self
    /\ blocks[last.ret[1]].args # <<>>
    /\ values[blocks[last.ret[1]].args[1]] = Argument(last.ret[1], 0)
    /\ blocks[last.self].instructions # <<>>
    /\ blocks[last.self].args = <<>>

\* C32: split_at(k) with 0 < k <= len on a block B of the function creates a new block
\* N immediately after B and leaves the arguments of B on B.  When the terminator
\* moves to N (k < len), every destination D of it has B replaced by N in its
\* predecessors: B is not in D.preds and N is, also when both edges of a conditional
\* branch go to D and when D = B.  When k = len, N is empty and every predecessor set
\* is as before.
C32_SplitAtNonZero ==
    Returned =>
        \A b \in Blocks :
            \A split_idx \in 1..num_instructions(Ctx, b) :
                ~split_at_panics(Ctx, b, split_idx) =>
                    \A c2 \in {split_at(Ctx, b, split_idx)}, new_block \in {next_block(Ctx)} :
                        /\ Len(c2.blocks) = Len(blocks) + 1
                        /\ position(c2.func_blocks, new_block) = position(c2.func_blocks, b) + 1
                        /\ position(c2.func_blocks, b) = position(func_blocks, b)
                        /\ c2.blocks[b].args = blocks[b].args
                        /\ split_idx < num_instructions(Ctx, b) =>
                              /\ get_terminator(c2, new_block) = get_terminator(Ctx, b)
                              /\ \A D \in succ_blocks(c2, new_block) :
                                    /\ b \notin c2.blocks[D].preds
                                    /\ new_block \in c2.blocks[D].preds
                                    /\ D # new_block
                                    /\ c2.blocks[D].preds \ {new_block} = blocks[D].preds \ {b}
                              /\ \A o \in Blocks \ succ_blocks(c2, new_block) :
                                    c2.blocks[o].preds = blocks[o].preds
                        /\ split_idx = num_instructions(Ctx, b) =>
                              /\ c2.blocks[new_block].instructions = <<>>
                              /\ \A o \in Blocks : c2.blocks[o].preds = blocks[o].preds
                              /\ c2.blocks[new_block].preds = {}

\* split_at has moved a conditional branch whose two edges go to the block itself to
\* the new block: the new block is the predecessor and the old one is not.
C32_Witness ==
    /\ last.op = "split_at" /\ Returned
    /\ last.args[1] > 0
    /\ successors(Ctx, last.ret[2]) # <<>>
    /\ blocks[last.self].instructions # <<>>
    /\ \A i \in 1..Len(successors(Ctx, last.ret[2])) :
          successors(Ctx, last.ret[2])[i].block = last.self
    /\ Len(successors(Ctx, last.ret[2])) = 2
    /\ blocks[last.self].preds = {last.ret[2]}

\* C33: TyAstNode::is_main_function returns ok(true) exactly when the node is a
\* function declaration whose function is found, is named "main", and the tree type
\* is Script or Predicate; for a node that is no function declaration it returns
\* ok(false) without warnings or errors; when the lookup of the function fails it
\* returns a result without a value that carries the errors of the lookup.
C33_IsMainFunction ==
    \A tree_type \in TreeTypes :
        \A res \in {is_main_function(values[1], blocks, tree_type)} :
            /\ (res.value = Some(TRUE))
                  <=> /\ values[1].content = "Declaration"
                      /\ values[1].decl = "FunctionDeclaration"
                      /\ blocks[values[1].decl_id].wrapper = "Function"
                      /\ blocks[values[1].decl_id].name = "main"
                      /\ tree_type \in {"Script", "Predicate"}
            /\ ~(values[1].content = "Declaration" /\ values[1].decl = "FunctionDeclaration")
                  => res = [value |-> Some(FALSE), warnings |-> <<>>, errors |-> <<>>]
            /\ (/\ values[1].content = "Declaration"
                /\ values[1].decl = "FunctionDeclaration"
                /\ blocks[values[1].decl_id].wrapper # "Function")
                  => /\ res.value = None
                     /\ res.errors = get_function(blocks, values[1].decl_id).errors
                     /\ res.errors # <<>>
            /\ (res.value = Some(FALSE) \/ res.value = Some(TRUE) \/ res.value = None)

\* The function "main" of a contract was asked about and is not the main function,
\* while the engine also holds a function that is not called main.
C33_Witness ==
    /\ last.op = "is_main_function"
    /\ last.args = <<"Contract">>
    /\ values[1] = Declaration_Function(1)
    /\ blocks[1] = DeclFunction("main")
    /\ blocks[2] = DeclFunction("Main")
    /\ last.ret = ok(FALSE, <<>>, <<>>)
    /\ is_main_function(values[1], blocks, "Script") = ok(TRUE, <<>>, <<>>)

\* C34: double-ended iteration.  Whatever the order of the calls of next() and
\* next_back() on one InstructionIterator over a snapshot of n instructions, a
\* position of the snapshot is returned at most once, so at most n items are returned
\* in all, and once the two ends have met next() and next_back() both return None.
C34_DoubleEnded ==
    (iter # None /\ iter[1].kind = "Instruction") =>
        /\ Len(iter[1].yielded) + Len(iter[1].yielded_back) <= Len(iter[1].held)
        /\ Len(iter[1].yielded) + Len(iter[1].yielded_back) = Len(iter[1].held) =>
              /\ InstructionIterator_next(iter[1].it).ret = None
              /\ InstructionIterator_next_back(iter[1].it).ret = None

\* C35: Instruction::replace_values returns for every instruction and every
\* replacement map, a map with a cycle such as {v1 -> v2, v2 -> v1} or with a
\* self-mapping {v -> v} reachable from an operand included.
C35_ReplaceValuesTerminates ==
    /\ status # "diverged"
    /\ \A v \in InsInstructions, m \in ReplaceMaps :
          ~replace_values_diverges(values[v].ins, m)

\* C36: replace_pred(old, new) on a block S always ends with new in S.preds and, when
\* old # new, with old not in S.preds, whether or not old was a predecessor: when old
\* was absent the call still adds new, and the number of predecessors grows by one
\* if new was absent too.  The other predecessors of S and the sets of the other
\* blocks are as before.
C36_ReplacePred ==
    \A S \in Blocks, old_source \in Blocks, new_source \in Blocks :
        \A c2 \in {replace_pred(Ctx, S, old_source, new_source)} :
            /\ new_source \in c2.blocks[S].preds
            /\ old_source # new_source => old_source \notin c2.blocks[S].preds
            /\ c2.blocks[S].preds \ {old_source, new_source}
                  = blocks[S].preds \ {old_source, new_source}
            /\ (old_source \notin blocks[S].preds /\ new_source \notin blocks[S].preds)
                  => num_predecessors(c2, S) = num_predecessors(Ctx, S) + 1
            /\ \A o \in Blocks \ {S} : c2.blocks[o] = blocks[o]
            /\ c2.values = values

\* replace_pred(old, new) was called with old # new and changed the set: the block has
\* new and another predecessor, and old is none of its predecessors.
C36_Witness ==
    /\ last.op = "replace_pred"
    /\ last.ret = TRUE
    /\ last.args[1] # last.args[2]
    /\ last.args[2] \in blocks[last.self].preds
    /\ last.args[1] \notin blocks[last.self].preds
    /\ num_predecessors(Ctx, last.self) = 2

\* C37: get_succ_params and get_succ_params_mut select the same edge.  For every block
\* and every succ, get_succ_params_mut(succ) is Some(list) exactly when succ is a
\* destination of the terminator, and the list is then the one get_succ_params(succ)
\* returns; when both edges of a ConditionalBranch go to succ both give the list of
\* the true edge, and neither gives the list of the false edge.
C37_SuccParamsAgree ==
    \A B \in Blocks, succ \in Blocks :
        \A m \in {get_succ_params_mut(Ctx, B, succ)} :
            /\ (m # None) <=> (succ \in succ_blocks(Ctx, B))
            /\ m # None => m[1].args = get_succ_params(Ctx, B, succ)
            /\ (/\ Len(successors(Ctx, B)) = 2
                /\ successors(Ctx, B)[1].block = succ
                /\ successors(Ctx, B)[2].block = succ)
                  => /\ m # None
                     /\ m[1].slot = "true_block"
                     /\ m[1].args = successors(Ctx, B)[1].args
                     /\ get_succ_params(Ctx, B, succ) = successors(Ctx, B)[1].args

\* A block ends in a conditional branch whose two edges go to one block with different
\* argument lists.
C37_Witness ==
    \E B \in Blocks :
        /\ Len(successors(Ctx, B)) = 2
        /\ successors(Ctx, B)[1].block = successors(Ctx, B)[2].block
        /\ successors(Ctx, B)[1].args # successors(Ctx, B)[2].args
        /\ get_succ_params_mut(Ctx, B, successors(Ctx, B)[1].block)
              = Some([slot |-> "true_block", args |-> successors(Ctx, B)[1].args])
        /\ last.op = "conditional_branch"

\* C38: split_at(0) changes no predecessor set and no terminator of the function.  The
\* predecessors of the original block stay its predecessors and keep branching to it
\* with the argument lists they passed, although it has no arguments any more; the
\* new block, which received the arguments, has no predecessor and no terminator.
C38_SplitAtZeroFrame ==
    Returned =>
        \A b \in Blocks :
            ~split_at_panics(Ctx, b, 0) =>
                \A c2 \in {split_at(Ctx, b, 0)}, new_block \in {next_block(Ctx)} :
                    /\ \A o \in Blocks :
                          /\ c2.blocks[o].preds = blocks[o].preds
                          /\ c2.blocks[o].instructions = blocks[o].instructions
                          /\ get_terminator(c2, o) = get_terminator(Ctx, o)
                          /\ successors(c2, o) = successors(Ctx, o)
                    /\ \A v \in Values :
                          values[v].kind = "Instruction" => c2.values[v] = values[v]
                    /\ c2.blocks[new_block].preds = {}
                    /\ c2.blocks[new_block].instructions = <<>>
                    /\ get_terminator(c2, new_block) = None
                    /\ \A o \in Blocks : new_block \notin succ_blocks(c2, o)

\* split_at(0) has taken the argument of a block that a branch passes a value to: the
\* branch still goes to that block, with its argument list, and the block with the
\* argument has no predecessor.
C38_Witness ==
    /\ last.op = "split_at" /\ Returned
    /\ last.args[1] = 0
    /\ blocks[last.ret[1]].args # <<>>
    /\ blocks[last.ret[1]].preds = {}
    /\ blocks[last.ret[1]].instructions = <<>>
    /\ blocks[last.self].args = <<>>
    /\ \E P \in blocks[last.self].preds :
          /\ successors(Ctx, P) # <<>>
          /\ successors(Ctx, P)[1].block = last.self
          /\ successors(Ctx, P)[1].args # <<>>

\* C39: Block::remove_instruction(v) removes at most one entry.  When v is not in the
\* instruction list of the block nothing changes; when it is, its first occurrence is
\* taken out and the other entries keep their order.  In both cases every value (so
\* every operand that refers to v), every predecessor set, also when v is a branch,
\* every argument list and every other block are as before.
C39_RemoveInstructionFrame ==
    Returned =>
        \A b \in Blocks, v \in Values :
            \A c2 \in {remove_instruction(Ctx, b, v)}, L \in {blocks[b].instructions} :
                /\ (\A i \in 1..Len(L) : L[i] # v) => c2 = Ctx
                /\ \A pos \in 1..Len(L) :
                      (L[pos] = v /\ \A j \in 1..(pos - 1) : L[j] # v)
                          => c2.blocks[b].instructions
                                = SubSeq(L, 1, pos - 1) \o SubSeq(L, pos + 1, Len(L))
                /\ Len(c2.blocks[b].instructions) >= Len(L) - 1
                /\ c2.values = values
                /\ c2.func_blocks = func_blocks
                /\ Len(c2.blocks) = Len(blocks)
                /\ \A o \in Blocks :
                      /\ c2.blocks[o].preds = blocks[o].preds
                      /\ c2.blocks[o].args = blocks[o].args
                      /\ o # b => c2.blocks[o] = blocks[o]

\* remove_instruction has taken a branch out of a block: the destination still has the
\* block among its predecessors, and the block has no successors.
C39_Witness ==
    /\ last.op = "remove_instruction"
    /\ last.ret = TRUE
    /\ values[last.args[1]].kind = "Instruction"
    /\ values[last.args[1]].ins.op = "Branch"
    /\ position(blocks[last.self].instructions, last.args[1]) = 0
    /\ last.self \in blocks[values[last.args[1]].ins.to.block].preds
    /\ successors(Ctx, last.self) = <<>>

\* C40: replace_successor(old, new, ps) with old = new on a block that branches to old
\* gives every edge to old the argument list ps and leaves the control flow graph as
\* it was: the destinations are the same, the block is a predecessor of old after the
\* call (the removal and the insertion in the one set leave a set that held the block
\* as it was), and no other predecessor set is modified.
C40_ReplaceSuccessorSame ==
    Returned =>
        \A b \in Blocks, old_succ \in Blocks, new_params \in ArgLists :
            old_succ \in succ_blocks(Ctx, b) =>
                \A c2 \in {replace_successor(Ctx, b, old_succ, old_succ, new_params)} :
                    /\ Len(successors(c2, b)) = Len(successors(Ctx, b))
                    /\ \A i \in 1..Len(successors(Ctx, b)) :
                          /\ successors(c2, b)[i].block = successors(Ctx, b)[i].block
                          /\ successors(c2, b)[i].args
                                = IF successors(Ctx, b)[i].block = old_succ
                                  THEN new_params
                                  ELSE successors(Ctx, b)[i].args
                    /\ b \in c2.blocks[old_succ].preds
                    /\ b \in blocks[old_succ].preds
                          => c2.blocks[old_succ].preds = blocks[old_succ].preds
                    /\ c2.blocks[old_succ].preds \ {b} = blocks[old_succ].preds \ {b}
                    /\ \A o \in Blocks \ {old_succ} : c2.blocks[o].preds = blocks[o].preds
                    /\ c2.func_blocks = func_blocks
                    /\ \A o \in Blocks :
                          /\ c2.blocks[o].instructions = blocks[o].instructions
                          /\ c2.blocks[o].args = blocks[o].args

\* replace_successor(old, old, ps) has given a new argument list to the edge of a
\* branch: the block is a predecessor of old, as it was.
C40_Witness ==
    /\ last.op = "replace_successor"
    /\ last.ret = TRUE
    /\ last.args[1] = last.args[2]
    /\ last.args[3] # <<>>
    /\ successors(Ctx, last.self) = <<BranchToWithArgs(last.args[1], last.args[3])>>
    /\ last.self \in blocks[last.args[1]].preds

====
